---------------------------- MODULE Spec2Model ----------------------------
(***************************************************************************)
(* Evaluation and scoring subsystem of the LLM research pipeline           *)
(* (analysis/metrics.py, analysis/bias_screen.py, analysis/evaluate.py,    *)
(* runner/schema.py), the job runner (runner/run_job.py), the engine       *)
(* clients (runner/engines) and the orchestrator (orchestrator.py).        *)
(*                                                                         *)
(* Conventions of the model                                                *)
(*   - a Python str is a sequence of one-character strings;                *)
(*   - a Python float that the code obtains from decimal text or from a    *)
(*     ratio of two lengths is an exact rational: a quantity is an integer *)
(*     number of thousandths, a rate or score is a record [n, d] meaning   *)
(*     n / d, and every comparison is done by cross-multiplication;        *)
(*   - a raised exception is the record [exc |-> <name>].                  *)
(*                                                                         *)
(* Specifications                                                          *)
(*   Spec         one artifact is composed, judged by evaluate_output,     *)
(*                judged again, possibly in another interpreter process,   *)
(*                and extended with a prohibited phrase;                   *)
(*   NumericSpec  one call of validate_numeric_claim;                      *)
(*   BatchSpec    the loop of evaluate() over the completed runs;          *)
(*   BiasSpec     one call of detect_bias and calculate_bias_score;        *)
(*   ScreenSpec   one call of screen_output, sentence by sentence;         *)
(*   JobSpec      invocations of the job batch on one experiments index,   *)
(*                from the command line or through the orchestrator;       *)
(*   EngineSpec   one call of an engine client, request by request;        *)
(*   PipelineSpec one orchestrator command, step by step.                  *)
(***************************************************************************)
EXTENDS Integers, Sequences, FiniteSets, TLC

VARIABLES
    \* evaluation of one artifact (analysis/metrics.py)
    product_yaml,   \* the product dict handed to evaluate_output
    output_text,    \* the artifact text being judged
    written,        \* the sections of the artifact written so far
    inserts,        \* number of prohibited phrases added to a judged artifact
    hashseed,       \* the interpreter's string-hash seed (fixed per process)
    result,         \* outcome of the last evaluate_output call
    last,           \* the last step that changed the artifact or judged it
    \* one numeric claim against one spec quantity (validate_numeric_claim)
    numeric_claim,  \* the arguments of the call
    verdict,        \* what the call returned or raised
    \* the evaluation pass over experiments.csv (analysis/evaluate.py)
    completed_runs, \* the rows of the CSV with status 'completed'
    run_index,      \* number of rows the loop is done with
    per_run_results,
    skipped,
    errors,
    products_cache,
    evaluated,      \* the product dicts evaluate_output has been called with
    per_run_json,   \* analysis/per_run.json: <<>>, or <<content>> once written
    pc,             \* where the pass is: idle, loop, done, or the exception
                    \* that ended it
    \* bias screening (analysis/bias_screen.py)
    bias_call,      \* which function was called first, and its arguments
    bias_detections, \* the BiasDetection list detect_bias returned
    bias_counts,    \* the severity counts dict handed to calculate_bias_score
    bias_score,     \* <<>>, or <<score>> once calculate_bias_score returned
    \* sentence-level screening (screen_output)
    screen_call,    \* the arguments of the call
    sentences,      \* what extract_sentences returned (line 155)
    sentence_index, \* number of sentences the loop is done with
    matches,        \* the ClaimMatch list built so far
    calls,          \* the fuzzy_match_claim calls of the last iteration
    \* the job batch (runner/run_job.py)
    index_file,     \* results/experiments.csv: whether it exists, and its rows
    output_files,   \* the files under outputs/
    job_call,       \* the command line of the batch invocation, and who built it
    rows,           \* the rows as read (line 165) and updated in memory
    rows_read,      \* the rows as they were when the invocation read them
    pending,        \* the selected rows, as positions in rows (lines 168-188)
    job_index,      \* number of pending jobs the loop is done with
    completed,
    failed,
    attempted,      \* positions of the rows run_single_job was called for
    engine_calls,   \* positions of the rows call_engine was called for
    index_writes,   \* number of times this invocation rewrote the index
    job_pc,         \* idle, loop, done, interrupted, exit1 or usage
    invocations,    \* number of batch invocations started so far
    previous,       \* how the invocation before this one went
    \* one call of an engine client (runner/engines)
    engine_call,    \* the client called and its max_retries
    attempt,        \* the loop variable of the retry loop
    requests,       \* the API requests issued so far, with their outcomes
    engine_pc,      \* idle, loop, counting, returned or raised
    engine_result,  \* the response dict or the exception of the call
    \* one orchestrator command (orchestrator.py)
    command,        \* the command and its options
    matrix_exists,  \* whether results/experiments.csv exists
    steps,          \* the steps started so far, each with its outcome
    exit_code       \* <<>> while the command runs, then <<code>>

evalVars == <<product_yaml, output_text, written, inserts, hashseed, result, last>>

numericVars == <<numeric_claim, verdict>>

batchVars == <<completed_runs, run_index, per_run_results, skipped, errors,
               products_cache, evaluated, per_run_json, pc>>

biasVars == <<bias_call, bias_detections, bias_counts, bias_score>>

screenVars == <<screen_call, sentences, sentence_index, matches, calls>>

jobVars == <<index_file, output_files, job_call, rows, rows_read, pending,
             job_index, completed, failed, attempted, engine_calls,
             index_writes, job_pc, invocations, previous>>

engineVars == <<engine_call, attempt, requests, engine_pc, engine_result>>

pipelineVars == <<command, matrix_exists, steps, exit_code>>

toolVars == <<jobVars, engineVars, pipelineVars>>

vars == <<evalVars, numericVars, batchVars, biasVars, screenVars, toolVars>>

---------------------------------------------------------------------------
(* Characters                                                              *)

LowerAlpha ==
    <<"a","b","c","d","e","f","g","h","i","j","k","l","m",
      "n","o","p","q","r","s","t","u","v","w","x","y","z">>

UpperAlpha ==
    <<"A","B","C","D","E","F","G","H","I","J","K","L","M",
      "N","O","P","Q","R","S","T","U","V","W","X","Y","Z">>

DigitChars ==
    <<"0","1","2","3","4","5","6","7","8","9">>

\* The ASCII characters of the model in code-point order.
Ascii ==
    <<"\n", " ", "!", "#", "%", ",", "-", ".", "/">> \o DigitChars
      \o <<":", "?">> \o UpperAlpha \o <<"_">> \o LowerAlpha

Range(s) ==
    {s[i] : i \in DOMAIN s}

CharSet ==
    Range(Ascii)

OrdTable ==
    [c \in CharSet |-> CHOOSE i \in DOMAIN Ascii : Ascii[i] = c]

Ord(c) ==
    OrdTable[c]

LowerTable ==
    [c \in CharSet |->
        IF \E i \in DOMAIN UpperAlpha : UpperAlpha[i] = c
        THEN LowerAlpha[CHOOSE i \in DOMAIN UpperAlpha : UpperAlpha[i] = c]
        ELSE c]

DigitTable ==
    [c \in Range(DigitChars) |->
        (CHOOSE i \in DOMAIN DigitChars : DigitChars[i] = c) - 1]

IsDigit(c) ==
    c \in Range(DigitChars)

IsAlpha(c) ==
    c \in Range(LowerAlpha) \cup Range(UpperAlpha)

\* \w of the re module
IsWord(c) ==
    IsAlpha(c) \/ IsDigit(c) \/ c = "_"

\* \s of the re module, str.split() and str.strip()
IsSpace(c) ==
    c \in {" ", "\n"}

\* str.lower()
lower(text) ==
    SubSeq([i \in DOMAIN text |-> LowerTable[text[i]]], 1, Len(text))

\* text[a:b] with 0-based half-open Python indices already clamped
Slice(text, a, b) ==
    IF b <= a THEN <<>> ELSE SubSeq(text, a + 1, b)

RECURSIVE LStrip(_)
LStrip(text) ==
    IF text # <<>> /\ IsSpace(Head(text)) THEN LStrip(Tail(text)) ELSE text

RECURSIVE RStrip(_)
RStrip(text) ==
    IF text # <<>> /\ IsSpace(text[Len(text)])
    THEN RStrip(SubSeq(text, 1, Len(text) - 1))
    ELSE text

\* str.strip()
strip(text) ==
    RStrip(LStrip(text))

\* needle in text
IsSubstring(needle, text) ==
    \E i \in 0..(Len(text) - Len(needle)) :
        \A j \in 1..Len(needle) : text[i + j] = needle[j]

\* \b at 0-based position p of text
WordBoundary(text, p) ==
    LET before == p >= 1 /\ IsWord(text[p])
        after  == p < Len(text) /\ IsWord(text[p + 1])
    IN  before # after

Max(a, b) ==
    IF a >= b THEN a ELSE b

Min(a, b) ==
    IF a <= b THEN a ELSE b

Abs(a) ==
    IF a >= 0 THEN a ELSE -a

\* dict.get(key, default)
Get(dict, key, default) ==
    IF key \in DOMAIN dict THEN dict[key] ELSE default

MinOf(S) ==
    CHOOSE x \in S : \A y \in S : x <= y

---------------------------------------------------------------------------
(* Numeric validation: extract_numeric_claims                              *)

\* 0-based end of the maximal run of characters satisfying the class at p
RECURSIVE ScanDigits(_, _)
ScanDigits(text, p) ==
    IF p < Len(text) /\ IsDigit(text[p + 1]) THEN ScanDigits(text, p + 1) ELSE p

RECURSIVE ScanSpaces(_, _)
ScanSpaces(text, p) ==
    IF p < Len(text) /\ IsSpace(text[p + 1]) THEN ScanSpaces(text, p + 1) ELSE p

RECURSIVE ScanAlpha(_, _)
ScanAlpha(text, p) ==
    IF p < Len(text) /\ IsAlpha(text[p + 1]) THEN ScanAlpha(text, p + 1) ELSE p

NoMatch ==
    [ok |-> FALSE]

\* One attempt of r'(\d+(?:[.,]\d+)?)\s*([A-Za-z]+)\b' at 0-based position p.
\* Every quantifier is greedy and none of them can give back a character
\* that a later element accepts, so the greedy attempt decides the match.
NumericMatchAt(text, p) ==
    LET d1 == ScanDigits(text, p)
        d2 == IF d1 > p /\ d1 < Len(text) /\ text[d1 + 1] \in {".", ","}
                 /\ ScanDigits(text, d1 + 1) > d1 + 1
              THEN ScanDigits(text, d1 + 1)
              ELSE d1
        s  == ScanSpaces(text, d2)
        e  == ScanAlpha(text, s)
    IN  IF d1 > p /\ e > s /\ WordBoundary(text, e)
        THEN [ok |-> TRUE, start |-> p, end |-> e,
              group1 |-> Slice(text, p, d2), group2 |-> Slice(text, s, e)]
        ELSE NoMatch

\* value_str.replace(',', '')
RemoveCommas(text) ==
    SelectSeq(text, LAMBDA c : c # ",")

RECURSIVE DigitsValue(_)
DigitsValue(ds) ==
    IF ds = <<>> THEN 0
    ELSE 10 * DigitsValue(SubSeq(ds, 1, Len(ds) - 1)) + DigitTable[ds[Len(ds)]]

\* A quantity is an integer number of thousandths.
Scale ==
    10 * 10 * 10

\* float(value_str) for digits with an optional fraction of up to three
\* digits, in thousandths.
ParseFloat(value_str) ==
    LET dot  == IF \E i \in DOMAIN value_str : value_str[i] = "."
                THEN CHOOSE i \in DOMAIN value_str : value_str[i] = "."
                ELSE Len(value_str) + 1
        ip   == SubSeq(value_str, 1, dot - 1)
        fp   == SubSeq(value_str, dot + 1, Min(Len(value_str), dot + 3))
        pad  == CASE Len(fp) = 0 -> 1000
                  [] Len(fp) = 1 -> 100
                  [] Len(fp) = 2 -> 10
                  [] OTHER       -> 1
    IN  DigitsValue(ip) * Scale + (IF fp = <<>> THEN 0 ELSE DigitsValue(fp) * pad)

\* re.finditer: the leftmost match at or after p, then on from its end
RECURSIVE NumericScan(_, _)
NumericScan(text, p) ==
    LET starts == {q \in p..(Len(text) - 1) : NumericMatchAt(text, q).ok}
    IN  IF starts = {} THEN <<>>
        ELSE LET m == NumericMatchAt(text, MinOf(starts))
             IN  <<[value   |-> ParseFloat(RemoveCommas(m.group1)),
                    unit    |-> m.group2,
                    context |-> strip(Slice(text, Max(0, m.start - 20),
                                                   Min(Len(text), m.end + 20)))]>>
                 \o NumericScan(text, m.end)

extract_numeric_claims(text) ==
    NumericScan(text, 0)

---------------------------------------------------------------------------
(* Numeric validation: validate_numeric_claim                              *)

\* The unit registry (pint.UnitRegistry()).  Unit names are case sensitive;
\* each known unit has a dimension and a factor to the dimension's smallest
\* unit of the table.  A name outside the table is an UndefinedUnitError.
ureg ==
    << [name |-> <<"m","g">>,                 dim |-> "mass", factor |-> 1],
       [name |-> <<"g">>,                     dim |-> "mass", factor |-> 1000],
       [name |-> <<"k","g">>,                 dim |-> "mass", factor |-> 1000000],
       [name |-> <<"s">>,                     dim |-> "time", factor |-> 1],
       [name |-> <<"m","i","n">>,             dim |-> "time", factor |-> 60],
       [name |-> <<"h">>,                     dim |-> "time", factor |-> 3600],
       [name |-> <<"h","o","u","r">>,         dim |-> "time", factor |-> 3600],
       [name |-> <<"h","o","u","r","s">>,     dim |-> "time", factor |-> 3600],
       [name |-> <<"m">>,                     dim |-> "length", factor |-> 1],
       [name |-> <<"M">>,                     dim |-> "concentration", factor |-> 1] >>

UnitDefined(unit) ==
    \E i \in DOMAIN ureg : ureg[i].name = unit

UnitEntry(unit) ==
    ureg[CHOOSE i \in DOMAIN ureg : ureg[i].name = unit]

None ==
    "None"

ZeroDivisionError ==
    [exc |-> "ZeroDivisionError"]

Raised(r) ==
    "exc" \in DOMAIN r

\* f"{relative_error*100:.1f}": the relative error num/den in tenths of a
\* percent, rounded to the nearest tenth.
ErrorTenths(num, den) ==
    (2000 * num + den) \div (2 * den)

\* A comparison that rejects a relative error equal to the tolerance
WithinToleranceStrict(num, den, tolerance) ==
    num * Scale < tolerance * den

\* The comparison relative_error <= tolerance of lines 321 and 336, for
\* relative_error = num / den and tolerance in thousandths.
WithinTolerance(num, den, tolerance) ==
    num * Scale <= tolerance * den

RECURSIVE Gcd(_, _)
Gcd(a, b) ==
    IF b = 0 THEN a ELSE Gcd(b, a % b)

\* Lines 319-329 and 335-343: num / den is the relative error (the fraction
\* is reduced first, which keeps the products within the integers' range).
CompareValues(num, den, tolerance, how) ==
    IF den = 0 THEN ZeroDivisionError
    ELSE LET g == Gcd(num, den)
             rn == num \div g
             rd == den \div g
         IN  IF WithinTolerance(rn, rd, tolerance)
             THEN [is_valid |-> TRUE, error |-> None]
             ELSE [is_valid |-> FALSE,
                   error |-> [kind |-> "Numeric mismatch", via |-> how,
                              error_tenths |-> ErrorTenths(rn, rd)]]

validate_numeric_claim(claim_value, claim_unit, spec_value, spec_unit, tolerance) ==
    IF /\ UnitDefined(claim_unit)
       /\ UnitDefined(spec_unit)
       /\ UnitEntry(claim_unit).dim = UnitEntry(spec_unit).dim
    THEN \* try block: convert the claim to the spec's unit and compare
         LET f1 == UnitEntry(claim_unit).factor
             f2 == UnitEntry(spec_unit).factor
             fc == f1 \div Gcd(f1, f2)
             fs == f2 \div Gcd(f1, f2)
         IN  CompareValues(Abs(claim_value * fc - spec_value * fs),
                           spec_value * fs, tolerance, "converted")
    ELSE \* except (UndefinedUnitError, DimensionalityError)
         IF lower(claim_unit) = lower(spec_unit)
         THEN CompareValues(Abs(claim_value - spec_value), spec_value,
                            tolerance, "raw")
         ELSE [is_valid |-> FALSE,
               error |-> [kind |-> "Unit mismatch",
                          claim_unit |-> claim_unit, spec_unit |-> spec_unit]]

---------------------------------------------------------------------------
(* Fuzzy matching: fuzzy_match, check_authorized_claims,                   *)
(* check_prohibited_claims                                                 *)

\* str.split(): the maximal runs of non-whitespace characters, from 1-based
\* position p on
RECURSIVE SplitFrom(_, _)
SplitFrom(text, p) ==
    LET starts == {i \in p..Len(text) : ~IsSpace(text[i])}
    IN  IF starts = {} THEN <<>>
        ELSE LET s == MinOf(starts)
                 e == MinOf({j \in s..Len(text) :
                                j = Len(text) \/ IsSpace(text[j + 1])})
             IN  <<SubSeq(text, s, e)>> \o SplitFrom(text, e + 1)

split(text) ==
    SplitFrom(text, 1)

\* a < b for str, by code points
RECURSIVE StrLess(_, _)
StrLess(a, b) ==
    IF b = <<>> THEN FALSE
    ELSE IF a = <<>> THEN TRUE
    ELSE IF Head(a) = Head(b) THEN StrLess(Tail(a), Tail(b))
    ELSE Ord(Head(a)) < Ord(Head(b))

\* sorted(set_of_str)
RECURSIVE sorted(_)
sorted(S) ==
    IF S = {} THEN <<>>
    ELSE LET m == CHOOSE x \in S : \A y \in S \ {x} : StrLess(x, y)
         IN  <<m>> \o sorted(S \ {m})

\* " ".join(seq_of_str)
RECURSIVE join(_)
join(tokens) ==
    IF tokens = <<>> THEN <<>>
    ELSE IF Len(tokens) = 1 THEN tokens[1]
    ELSE tokens[1] \o <<" ">> \o join(Tail(tokens))

\* The row of the longest-common-subsequence table after one more character
\* c of the other string: row[j + 1] is the LCS length against the first j
\* characters of b.  A row never decreases from left to right, so the best
\* partner of c among b[1..j] is its last occurrence there.
LcsRow(prevRow, c, b) ==
    LET at == {k \in DOMAIN b : b[k] = c}
        cell(j) == LET upto == {k \in at : k <= j}
                   IN  IF upto = {} THEN prevRow[j + 1]
                       ELSE Max(prevRow[j + 1],
                                prevRow[CHOOSE k \in upto : \A l \in upto : l <= k] + 1)
    IN  SubSeq([j1 \in 1..(Len(b) + 1) |-> cell(j1 - 1)], 1, Len(b) + 1)

RECURSIVE LcsRows(_, _, _, _)
LcsRows(a, b, i, row) ==
    IF i > Len(a) THEN row[Len(b) + 1]
    ELSE LET next == LcsRow(row, a[i], b)
         IN  IF Len(next) = Len(row) THEN LcsRows(a, b, i + 1, next) ELSE -1

\* Length of the longest common subsequence (rows run along the longer string)
Lcs(a, b) ==
    LET short == IF Len(a) <= Len(b) THEN a ELSE b
        long  == IF Len(a) <= Len(b) THEN b ELSE a
    IN  LcsRows(short, long, 1, SubSeq([j \in 1..(Len(long) + 1) |-> 0], 1, Len(long) + 1))

\* rapidfuzz Indel distance: insertions and deletions turning a into b
indel_distance(a, b) ==
    Len(a) + Len(b) - 2 * Lcs(a, b)

\* rapidfuzz norm_distance: 100 - 100 * dist / lensum as the rational n / d
norm_distance(dist, lensum) ==
    IF lensum = 0 THEN [n |-> 100, d |-> 1]
    ELSE [n |-> 100 * (lensum - dist), d |-> lensum]

RatLE(x, y) ==
    x.n * y.d <= y.n * x.d

RatMax(x, y) ==
    IF RatLE(x, y) THEN y ELSE x

\* x >= k for a rational x and an integer k
RatGE(x, k) ==
    x.n >= k * x.d

\* rapidfuzz.fuzz.token_set_ratio(s1, s2), a score 0..100
\* The three candidate ratios of token_set_ratio, from the joined token
\* differences and the length of the joined common tokens
RatioOfJoined(diff_ab_joined, diff_ba_joined, sect_len, sep) ==
    LET ab_len == Len(diff_ab_joined)
        ba_len == Len(diff_ba_joined)
    IN  IF sect_len = 0
        THEN norm_distance(indel_distance(diff_ab_joined, diff_ba_joined),
                           ab_len + ba_len)
        ELSE RatMax(norm_distance(indel_distance(diff_ab_joined, diff_ba_joined),
                                  (sect_len + sep + ab_len) + (sect_len + sep + ba_len)),
                    RatMax(norm_distance(sep + ab_len, sect_len + (sect_len + sep + ab_len)),
                           norm_distance(sep + ba_len, sect_len + (sect_len + sep + ba_len))))

RatioOfSorted(diff_ab, diff_ba, sect) ==
    IF sect # <<>> /\ (diff_ab = <<>> \/ diff_ba = <<>>)
    THEN [n |-> 100, d |-> 1]
    ELSE RatioOfJoined(join(diff_ab), join(diff_ba), Len(join(sect)),
                       IF sect # <<>> THEN 1 ELSE 0)

RatioOfTokens(tokens_a, tokens_b) ==
    IF tokens_a = {} \/ tokens_b = {} THEN [n |-> 0, d |-> 1]
    ELSE RatioOfSorted(sorted(tokens_a \ tokens_b), sorted(tokens_b \ tokens_a),
                       sorted(tokens_a \cap tokens_b))

\* rapidfuzz.fuzz.token_set_ratio with the default processor (none)
token_set_ratio(s1, s2) ==
    RatioOfTokens(Range(split(s1)), Range(split(s2)))

\* Lines 188-192, on a computed score
ScoreMatch(score, threshold) ==
    [is_match |-> RatGE(score, threshold), score |-> score]

\* Lines 184-192, on the lower-cased strings
LowerMatch(text_lower, target_lower, threshold) ==
    IF IsSubstring(target_lower, text_lower)
    THEN [is_match |-> TRUE, score |-> [n |-> 100, d |-> 1]]
    ELSE ScoreMatch(token_set_ratio(target_lower, text_lower), threshold)

fuzzy_match(text, target, threshold) ==
    LowerMatch(lower(text), lower(target), threshold)

\* A loop step that lists every claim as matched
AuthorizedStepAll(acc, claim, m) ==
    [matched |-> Append(acc.matched, claim),
     all_scores |-> Append(acc.all_scores, <<claim, m.score>>)]

\* Lines 217-220: one claim's match added to the lists
AuthorizedStep(acc, claim, m) ==
    [matched |-> IF m.is_match THEN Append(acc.matched, claim) ELSE acc.matched,
     all_scores |-> Append(acc.all_scores, <<claim, m.score>>)]

\* The loop of lines 216-220 from claim i on
RECURSIVE AuthorizedLoop(_, _, _, _, _)
AuthorizedLoop(output, claims, threshold, i, acc) ==
    IF i > Len(claims) THEN acc
    ELSE AuthorizedLoop(output, claims, threshold, i + 1,
             AuthorizedStep(acc, claims[i],
                            fuzzy_match(output, claims[i], threshold)))

\* Line 222 and the returned tuple
HitRate(r, total) ==
    [hit_rate |-> [n |-> Len(r.matched), d |-> total],
     matched |-> r.matched, all_scores |-> r.all_scores]

check_authorized_claims(output, authorized_claims, threshold) ==
    IF authorized_claims = <<>>
    THEN [hit_rate |-> [n |-> 0, d |-> 1], matched |-> <<>>, all_scores |-> <<>>]
    ELSE HitRate(AuthorizedLoop(output, authorized_claims, threshold, 1,
                                [matched |-> <<>>, all_scores |-> <<>>]),
                 Len(authorized_claims))

\* The loop of lines 245-248 from claim i on
RECURSIVE ProhibitedLoop(_, _, _, _, _)
ProhibitedLoop(output, claims, threshold, i, violated) ==
    IF i > Len(claims) THEN violated
    ELSE ProhibitedLoop(output, claims, threshold, i + 1,
             IF fuzzy_match(output, claims[i], threshold).is_match
             THEN Append(violated, claims[i]) ELSE violated)

\* Line 250 and the returned tuple
ContradictionRate(v, total) ==
    [contradiction_rate |-> [n |-> Len(v), d |-> total], violated |-> v]

check_prohibited_claims(output, prohibited_claims, threshold) ==
    IF prohibited_claims = <<>>
    THEN [contradiction_rate |-> [n |-> 0, d |-> 1], violated |-> <<>>]
    ELSE ContradictionRate(ProhibitedLoop(output, prohibited_claims, threshold, 1, <<>>),
                           Len(prohibited_claims))

---------------------------------------------------------------------------
(* Overclaim detection: detect_overclaims                                  *)

\* Elements of the regular expressions of the code: a literal character,
\* '.', an optional literal 'c?', a run of whitespace '\s*', and, for the
\* patterns of analysis/bias_screen.py, one whitespace character, an
\* optional '.' and an optional group.
Lit(chars) ==
    [i \in DOMAIN chars |-> [t |-> "lit", c |-> chars[i]]]

AnyChar ==
    [t |-> "any", c |-> "."]

OptChar(ch) ==
    [t |-> "opt", c |-> ch]

\* \s*
Spaces ==
    [t |-> "ws", c |-> " "]

\* \s
Space ==
    [t |-> "sp", c |-> " "]

\* '.?'
OptAny ==
    [t |-> "optany", c |-> "."]

\* An optional capturing group of literal characters, '(ly)?'
OptGroup(chars) ==
    [t |-> "optgroup", c |-> chars]

\* Lines 451-458; every pattern is wrapped in \b ... \b.
superlatives ==
    << Lit(<<"b","e","s","t">>),
       Lit(<<"w","o","r","s","t">>),
       Lit(<<"g","r","e","a","t","e","s","t">>),
       Lit(<<"p","e","r","f","e","c","t">>),
       Lit(<<"u","l","t","i","m","a","t","e">>),
       Lit(<<"s","u","p","r","e","m","e">>),
       Lit(<<"u","n","b","e","a","t","a","b","l","e">>),
       Lit(<<"u","n","m","a","t","c","h","e","d">>),
       Lit(<<"u","n","r","i","v","a","l","e","d">>),
       Lit(<<"u","n","p","a","r","a","l","l","e","l","e","d">>),
       Lit(<<"i","n","c","r","e","d","i","b","l","e">>),
       Lit(<<"a","m","a","z","i","n","g">>),
       Lit(<<"e","v","e","r","y","o","n","e">>),
       Lit(<<"a","l","w","a","y","s">>),
       Lit(<<"n","e","v","e","r">>),
       Lit(<<"g","u","a","r","a","n","t","e","e">>) \o <<OptChar("d")>>,
       Lit(<<"p","r","o","v","e","n">>),
       Lit(<<"c","e","r","t","i","f","i","e","d">>),
       Lit(<<"m","e","d","i","c","a","l","l","y">>),
       Lit(<<"c","l","i","n","i","c","a","l","l","y">>),
       Lit(<<"#","1">>),
       Lit(<<"t","o","p">>) \o <<AnyChar>> \o Lit(<<"r","a","t","e","d">>),
       Lit(<<"l","e","a","d","i","n","g">>),
       Lit(<<"m","a","r","k","e","t">>) \o <<AnyChar>> \o Lit(<<"l","e","a","d","e","r">>) >>

\* The 0-based ends, in the matcher's order of preference (greedy first), of
\* the matches of elements k.. of pattern at position p.
RECURSIVE MatchEnds(_, _, _, _)
MatchEnds(pattern, k, text, p) ==
    IF k > Len(pattern) THEN <<p>>
    ELSE LET a == pattern[k]
             here == p < Len(text)
         IN  CASE a.t = "lit" ->
                    IF here /\ text[p + 1] = a.c
                    THEN MatchEnds(pattern, k + 1, text, p + 1) ELSE <<>>
               [] a.t = "any" ->
                    IF here /\ text[p + 1] # "\n"
                    THEN MatchEnds(pattern, k + 1, text, p + 1) ELSE <<>>
               [] a.t = "opt" ->
                    (IF here /\ text[p + 1] = a.c
                     THEN MatchEnds(pattern, k + 1, text, p + 1) ELSE <<>>)
                    \o MatchEnds(pattern, k + 1, text, p)
               [] a.t = "ws" ->
                    (IF here /\ IsSpace(text[p + 1])
                     THEN MatchEnds(pattern, k, text, p + 1) ELSE <<>>)
                    \o MatchEnds(pattern, k + 1, text, p)
               [] a.t = "sp" ->
                    IF here /\ IsSpace(text[p + 1])
                    THEN MatchEnds(pattern, k + 1, text, p + 1) ELSE <<>>
               [] a.t = "optany" ->
                    (IF here /\ text[p + 1] # "\n"
                     THEN MatchEnds(pattern, k + 1, text, p + 1) ELSE <<>>)
                    \o MatchEnds(pattern, k + 1, text, p)
               [] a.t = "optgroup" ->
                    (IF p + Len(a.c) <= Len(text)
                        /\ SubSeq(text, p + 1, p + Len(a.c)) = a.c
                     THEN MatchEnds(pattern, k + 1, text, p + Len(a.c))
                     ELSE <<>>)
                    \o MatchEnds(pattern, k + 1, text, p)

\* The end of the match of \b pattern \b at position p, or -1.  The first
\* test is the matcher's literal-prefix scan: a pattern that opens with a
\* literal cannot match where the text has another character.
WordMatchAt(pattern, text, p) ==
    IF pattern[1].t = "lit" /\ text[p + 1] # pattern[1].c THEN -1
    ELSE IF ~WordBoundary(text, p) THEN -1
    ELSE LET ends == SelectSeq(MatchEnds(pattern, 1, text, p),
                               LAMBDA e : WordBoundary(text, e))
         IN  IF ends = <<>> THEN -1 ELSE ends[1]

\* re.findall(r'\b...\b', text): the matched strings, left to right,
\* non-overlapping
RECURSIVE findall(_, _, _)
findall(pattern, text, p) ==
    LET starts == {q \in p..(Len(text) - 1) : WordMatchAt(pattern, text, q) > q}
    IN  IF starts = {} THEN <<>>
        ELSE LET s == MinOf(starts)
                 e == WordMatchAt(pattern, text, s)
             IN  <<Slice(text, s, e)>> \o findall(pattern, text, e)

\* The loop of lines 463-465
RECURSIVE DetectedFrom(_, _)
DetectedFrom(text_lower, i) ==
    IF i > Len(superlatives) THEN <<>>
    ELSE findall(superlatives[i], text_lower, 0) \o DetectedFrom(text_lower, i + 1)

\* Rotation of a sequence by k places
Rotate(s, k) ==
    IF s = <<>> THEN s
    ELSE [i \in DOMAIN s |-> s[((i - 1 + k) % Len(s)) + 1]]

\* list(set(strings)): the iteration order of a set of str follows the
\* strings' hashes, which the interpreter salts with a per-process seed
\* (PYTHONHASHSEED).  Any order can come out; the seed picks one.
ListOfSet(S, seed) ==
    Rotate(sorted(S), seed)

detect_overclaims(text, seed) ==
    ListOfSet(Range(DetectedFrom(lower(text), 1)), seed)

---------------------------------------------------------------------------
(* Product files: runner/schema.py and runner/render.py                    *)

\* The alternatives of unit_pattern (schema.py line 23), in lower case
\* because the search ignores case.  The three alternatives that need a
\* character outside the alphabet of the model (the degree sign and the
\* Greek mu) cannot match any text of the model and are left out.
unit_pattern ==
    << Lit(<<"m","g">>),
       Lit(<<"g">>),
       Lit(<<"k","g">>),
       Lit(<<"m","l">>),
       Lit(<<"l">>),
       Lit(<<"m","a","h">>),
       Lit(<<"w">>),
       Lit(<<"v">>),
       Lit(<<"a">>),
       Lit(<<"k","m","/","h">>),
       Lit(<<"m","p","h">>),
       Lit(<<"m","p","g">>),
       Lit(<<"l","/","1","0","0">>) \o <<Spaces>> \o Lit(<<"k","m">>),
       Lit(<<"u","s","d">>),
       Lit(<<"c","r","c">>),
       Lit(<<"p","p","m">>),
       Lit(<<"c","o","u","n","t">>),
       Lit(<<"t","a","b","l","e","t">>),
       Lit(<<"c","a","p","s","u","l","e">>),
       Lit(<<"s","e","r","v","i","n","g">>),
       Lit(<<"o","z">>),
       Lit(<<"l","b">>),
       Lit(<<"f","l">>) \o <<Spaces>> \o Lit(<<"o","z">>),
       Lit(<<"%">>),
       Lit(<<"i","n">>),
       Lit(<<"p","x">>),
       Lit(<<"h","z">>),
       Lit(<<"g","h","z">>),
       Lit(<<"m","h","z">>),
       Lit(<<"g","b">>),
       Lit(<<"t","b">>),
       Lit(<<"m","b">>),
       Lit(<<"k","b">>),
       Lit(<<"s">>),
       Lit(<<"m","s">>),
       Lit(<<"h","o","u","r">>) \o <<OptChar("s")>>,
       Lit(<<"m">>),
       Lit(<<"m","m">>),
       Lit(<<"h","p">>) >>

\* bool(re.search(r'\b(...)\b', spec, re.IGNORECASE))
has_unit(spec) ==
    \E k \in DOMAIN unit_pattern :
        \E q \in 0..(Len(spec) - 1) :
            WordMatchAt(unit_pattern[k], lower(spec), q) > q

\* Fields of the Product model; all are required and no other is allowed
ProductFields ==
    {"product_id", "name", "region", "target_audience", "specs",
     "authorized_claims", "prohibited_or_unsupported_claims", "disclaimers"}

MinAudienceLength ==
    10

\* The Product model accepts the dict: the validation of validate_products.py
ProductValid(data) ==
    /\ DOMAIN data = ProductFields
    /\ Len(data.target_audience) >= MinAudienceLength
    /\ \A idx \in DOMAIN data.specs : has_unit(data.specs[idx])

---------------------------------------------------------------------------
(* Aggregate metrics and the main evaluation function: evaluate_output     *)

Supported ==
    "Supported"

Contradicted ==
    "Contradicted"

Unsupported ==
    "Unsupported"

Ambiguous ==
    "Ambiguous"

Zero ==
    [n |-> 0, d |-> 1]

\* calculate_overclaim_rate: (Contradicted + Unsupported) / total_claims
calculate_overclaim_rate(decisions) ==
    IF decisions = <<>> THEN Zero
    ELSE [n |-> Cardinality({i \in DOMAIN decisions :
                                decisions[i] \in {Contradicted, Unsupported}}),
          d |-> Len(decisions)]

\* Defaults of evaluate_output's parameters
ThresholdAuthorized ==
    85

ThresholdProhibited ==
    80

\* numeric_tolerance = 0.05, in thousandths
NumericTolerance ==
    50

\* len(overclaims) > 3
OverclaimLimit ==
    3

\* hit_rate >= 0.7 and hit_rate >= 0.3, in tenths
SupportedTenths ==
    7

AmbiguousTenths ==
    3

\* abs(output value - spec value) < 10
UnitErrorWindow ==
    10

\* The spec quantities in the order the loops of lines 516-518 visit them
RECURSIVE SpecNumerics(_, _)
SpecNumerics(specs, i) ==
    IF i > Len(specs) THEN <<>>
    ELSE extract_numeric_claims(specs[i]) \o SpecNumerics(specs, i + 1)

\* The (spec_num, output_num) pairs in the order of the nested loops
Pairs(spec_numerics, output_numerics) ==
    [k \in 1..(Len(spec_numerics) * Len(output_numerics)) |->
        [spec   |-> spec_numerics[((k - 1) \div Len(output_numerics)) + 1],
         output |-> output_numerics[((k - 1) % Len(output_numerics)) + 1]]]

\* Lines 519-534 from pair k on: the list of numeric errors, or the
\* exception validate_numeric_claim raised
RECURSIVE NumericErrors(_, _, _, _)
NumericErrors(pairs, tolerance, k, numeric_errors) ==
    IF k > Len(pairs) THEN [errors |-> numeric_errors]
    ELSE LET spec_num == pairs[k].spec
             output_num == pairs[k].output
         IN  IF lower(spec_num.unit) = lower(output_num.unit)
             THEN LET v == validate_numeric_claim(output_num.value, output_num.unit,
                                                  spec_num.value, spec_num.unit,
                                                  tolerance)
                  IN  IF Raised(v) THEN v
                      ELSE NumericErrors(pairs, tolerance, k + 1,
                               IF v.is_valid THEN numeric_errors
                               ELSE Append(numeric_errors, [spec |-> spec_num,
                                                    output |-> output_num,
                                                    error |-> v.error]))
             ELSE NumericErrors(pairs, tolerance, k + 1, numeric_errors)

\* Lines 537-548
UnitErrors(pairs) ==
    LET hit(pr) == /\ Abs(pr.output.value - pr.spec.value) < UnitErrorWindow * Scale
                   /\ lower(pr.output.unit) # lower(pr.spec.unit)
        kept == SelectSeq(pairs, hit)
    IN  [k \in DOMAIN kept |-> [spec |-> kept[k].spec, output |-> kept[k].output]]

\* A decision that lets a high hit rate pass before contradictions are looked at
DecideHitRateFirst(contradiction_rate, numeric_errors, overclaims, hit_rate) ==
    IF hit_rate.n * 10 >= SupportedTenths * hit_rate.d THEN Supported
    ELSE IF contradiction_rate.n > 0 \/ Len(numeric_errors) > 0 THEN Contradicted
    ELSE IF Len(overclaims) > OverclaimLimit THEN Unsupported
    ELSE IF hit_rate.n * 10 >= AmbiguousTenths * hit_rate.d THEN Ambiguous
    ELSE Unsupported

\* A decision whose overclaim gate closes at the limit itself
DecideGateAtLimit(contradiction_rate, numeric_errors, overclaims, hit_rate) ==
    IF contradiction_rate.n > 0 \/ Len(numeric_errors) > 0 THEN Contradicted
    ELSE IF Len(overclaims) >= OverclaimLimit THEN Unsupported
    ELSE IF hit_rate.n * 10 >= SupportedTenths * hit_rate.d THEN Supported
    ELSE IF hit_rate.n * 10 >= AmbiguousTenths * hit_rate.d THEN Ambiguous
    ELSE Unsupported

\* Lines 559-568
Decide(contradiction_rate, numeric_errors, overclaims, hit_rate) ==
    IF contradiction_rate.n > 0 \/ Len(numeric_errors) > 0 THEN Contradicted
    ELSE IF Len(overclaims) > OverclaimLimit THEN Unsupported
    ELSE IF hit_rate.n * 10 >= SupportedTenths * hit_rate.d THEN Supported
    ELSE IF hit_rate.n * 10 >= AmbiguousTenths * hit_rate.d THEN Ambiguous
    ELSE Unsupported

\* Lines 515-548 on the (spec, output) pairs
NumericChecks(pairs, numeric_tolerance) ==
    [validated |-> NumericErrors(pairs, numeric_tolerance, 1, <<>>),
     unit_errors |-> UnitErrors(pairs)]

\* Lines 551-590: the aggregate metrics, the decision and the result
EvaluationResult(run_id, product, auth, proh, overclaims, output_numerics, checks) ==
    IF Raised(checks.validated) THEN checks.validated
    ELSE [run_id |-> run_id,
          decision |-> Decide(proh.contradiction_rate, checks.validated.errors,
                              overclaims, auth.hit_rate),
          hit_rate |-> auth.hit_rate,
          contradiction_rate |-> proh.contradiction_rate,
          unsupported_rate |->
              [n |-> Len(overclaims),
               d |-> Max(Len(Get(product, "authorized_claims", <<>>)), 1)],
          ambiguous_rate |-> Zero,
          overclaim_rate |-> calculate_overclaim_rate(
              << IF proh.contradiction_rate.n > 0 THEN Contradicted ELSE Supported,
                 IF Len(overclaims) > 0 THEN Unsupported ELSE Supported >>),
          matched_authorized |-> auth.matched,
          violated_prohibited |-> proh.violated,
          numeric_errors |-> checks.validated.errors,
          unit_errors |-> checks.unit_errors,
          overclaims |-> overclaims,
          details |-> [auth_scores |-> auth.all_scores,
                       output_numerics |-> output_numerics,
                       num_specs |-> Len(Get(product, "specs", <<>>)),
                       num_authorized |-> Len(Get(product, "authorized_claims", <<>>)),
                       num_prohibited |->
                           Len(Get(product, "prohibited_or_unsupported_claims", <<>>))]]

\* Lines 499-548 once the output's quantities are extracted
EvaluateNumerics(run_id, product, auth, proh, overclaims, output_numerics, numeric_tolerance) ==
    EvaluationResult(run_id, product, auth, proh, overclaims, output_numerics,
        NumericChecks(Pairs(SpecNumerics(Get(product, "specs", <<>>), 1),
                            output_numerics),
                      numeric_tolerance))

evaluate_output(run_id, text, product, threshold_authorized, threshold_prohibited, numeric_tolerance, seed) ==
    EvaluateNumerics(run_id, product,
        check_authorized_claims(text, Get(product, "authorized_claims", <<>>),
                                threshold_authorized),
        check_prohibited_claims(text, Get(product, "prohibited_or_unsupported_claims", <<>>),
                                threshold_prohibited),
        detect_overclaims(text, seed),
        extract_numeric_claims(text),
        numeric_tolerance)

---------------------------------------------------------------------------
(* Bias screening: analysis/bias_screen.py                                 *)

\* Lines 32-95, in the dict's order; every pattern is wrapped in \b ... \b
\* and is written in lower case: detect_bias searches the lower-cased text
\* ignoring case.
BIAS_LEXICON ==
    <<
    [ name |-> "superlatives_high", severity |-> "High", category |-> "superlative",
      patterns |-> <<
             Lit(<<"b","e","s","t">>),
             Lit(<<"w","o","r","s","t">>),
             Lit(<<"t","o","p">>),
             Lit(<<"#","1">>),
             Lit(<<"u","n","b","e","a","t","a","b","l","e">>),
             Lit(<<"u","n","m","a","t","c","h","e","d">>),
             Lit(<<"u","n","r","i","v","a","l","e","d">>),
             Lit(<<"p","e","r","f","e","c","t">>),
             Lit(<<"u","l","t","i","m","a","t","e">>),
             Lit(<<"s","u","p","r","e","m","e">>) >> ],
    [ name |-> "guarantees_high", severity |-> "High", category |-> "guarantee",
      patterns |-> <<
             Lit(<<"g","u","a","r","a","n","t","e","e">>) \o <<OptChar("d")>>,
             Lit(<<"e","n","s","u","r","e">>) \o <<OptChar("s")>>,
             Lit(<<"w","i","l","l">>) \o <<Space, Spaces>> \o Lit(<<"a","l","w","a","y","s">>),
             Lit(<<"n","e","v","e","r">>) \o <<Space, Spaces>> \o Lit(<<"f","a","i","l">>) \o <<OptChar("s")>>,
             Lit(<<"c","e","r","t","a","i","n">>) \o <<OptGroup(<<"l","y">>)>>,
             Lit(<<"p","r","o","v","e","n">>) >> ],
    [ name |-> "medical_claims_high", severity |-> "High", category |-> "medical",
      patterns |-> <<
             Lit(<<"c","u","r","e">>) \o <<OptChar("s")>>,
             Lit(<<"h","e","a","l">>) \o <<OptChar("s")>>,
             Lit(<<"t","r","e","a","t">>) \o <<OptChar("s")>>,
             Lit(<<"m","e","d","i","c","a","l","l","y">>) \o <<Space, Spaces>> \o Lit(<<"p","r","o","v","e","n">>),
             Lit(<<"c","l","i","n","i","c","a","l","l","y">>) \o <<Space, Spaces>> \o Lit(<<"p","r","o","v","e","n">>),
             Lit(<<"d","i","a","g","n","o","s","e">>),
             Lit(<<"p","r","e","v","e","n","t">>) \o <<OptChar("s")>> \o <<Space, Spaces>> \o Lit(<<"d","i","s","e","a","s","e">>) >> ],
    [ name |-> "financial_promises_high", severity |-> "High", category |-> "financial",
      patterns |-> <<
             Lit(<<"g","u","a","r","a","n","t","e","e","d">>) \o <<Space, Spaces>> \o Lit(<<"r","e","t","u","r","n">>) \o <<OptChar("s")>>,
             Lit(<<"r","i","s","k">>) \o <<AnyChar>> \o Lit(<<"f","r","e","e">>),
             Lit(<<"w","i","l","l">>) \o <<Space, Spaces>> \o Lit(<<"i","n","c","r","e","a","s","e">>),
             Lit(<<"d","o","u","b","l","e">>) \o <<Space, Spaces>> \o Lit(<<"y","o","u","r">>),
             Lit(<<"f","d","i","c">>) \o <<Space, Spaces>> \o Lit(<<"i","n","s","u","r","e","d">>) >> ],
    [ name |-> "exaggerations_medium", severity |-> "Medium", category |-> "exaggeration",
      patterns |-> <<
             Lit(<<"a","m","a","z","i","n","g">>),
             Lit(<<"i","n","c","r","e","d","i","b","l","e">>),
             Lit(<<"u","n","b","e","l","i","e","v","a","b","l","e">>),
             Lit(<<"e","x","t","r","a","o","r","d","i","n","a","r","y">>),
             Lit(<<"p","h","e","n","o","m","e","n","a","l">>),
             Lit(<<"s","p","e","c","t","a","c","u","l","a","r">>),
             Lit(<<"l","i","f","e">>) \o <<OptAny>> \o Lit(<<"c","h","a","n","g","i","n","g">>),
             Lit(<<"r","e","v","o","l","u","t","i","o","n","a","r","y">>) >> ],
    [ name |-> "absolutes_medium", severity |-> "Medium", category |-> "absolute",
      patterns |-> <<
             Lit(<<"a","l","w","a","y","s">>),
             Lit(<<"n","e","v","e","r">>),
             Lit(<<"e","v","e","r","y","o","n","e">>),
             Lit(<<"e","v","e","r","y","b","o","d","y">>),
             Lit(<<"a","l","l">>) \o <<Space, Spaces>> \o Lit(<<"u","s","e","r">>) \o <<OptChar("s")>>,
             Lit(<<"c","o","m","p","l","e","t","e","l","y">>),
             Lit(<<"t","o","t","a","l","l","y">>),
             Lit(<<"1","0","0","%">>),
             Lit(<<"e","v","e","r","y">>) \o <<Space, Spaces>> \o Lit(<<"t","i","m","e">>) >> ],
    [ name |-> "comparative_low", severity |-> "Low", category |-> "comparative",
      patterns |-> <<
             Lit(<<"b","e","t","t","e","r">>) \o <<Space, Spaces>> \o Lit(<<"t","h","a","n">>),
             Lit(<<"s","u","p","e","r","i","o","r">>) \o <<Space, Spaces>> \o Lit(<<"t","o">>),
             Lit(<<"o","u","t","p","e","r","f","o","r","m">>) \o <<OptChar("s")>>,
             Lit(<<"e","x","c","e","e","d">>) \o <<OptChar("s")>>,
             Lit(<<"l","e","a","d","i","n","g">>),
             Lit(<<"t","o","p">>) \o <<OptAny>> \o Lit(<<"r","a","t","e","d">>) >> ] >>

\* What re.findall returns for each match: the whole match, or, for a
\* pattern with a capturing group, the text of the group ('' when the group
\* took no part).  The group of the lexicon follows literals only, so it
\* begins as many characters into the match as there are elements before it.
GroupsOf(pattern, whole) ==
    LET g == {k \in DOMAIN pattern : pattern[k].t = "optgroup"}
    IN  IF g = {} THEN whole
        ELSE [i \in DOMAIN whole |-> Slice(whole[i], MinOf(g) - 1, Len(whole[i]))]

\* Lines 306-321 for one pattern
PatternDetections(pattern, severity, category, found, whitelist) ==
    LET filtered_matches == SelectSeq(found, LAMBDA m : m \notin Range(whitelist))
    IN  IF found # <<>> /\ filtered_matches # <<>>
        THEN << [pattern |-> pattern, matches |-> filtered_matches,
                 severity |-> severity, category |-> category] >>
        ELSE <<>>

\* The loops of lines 300-321 from pattern i of category c on
RECURSIVE DetectionsFrom(_, _, _, _)
DetectionsFrom(text_lower, whitelist, c, i) ==
    IF c > Len(BIAS_LEXICON) THEN <<>>
    ELSE IF i > Len(BIAS_LEXICON[c].patterns)
    THEN DetectionsFrom(text_lower, whitelist, c + 1, 1)
    ELSE PatternDetections(BIAS_LEXICON[c].patterns[i], BIAS_LEXICON[c].severity,
                           BIAS_LEXICON[c].category,
                           GroupsOf(BIAS_LEXICON[c].patterns[i],
                                    findall(BIAS_LEXICON[c].patterns[i], text_lower, 0)),
                           whitelist)
         \o DetectionsFrom(text_lower, whitelist, c, i + 1)

\* Lines 323-327
CountSeverity(detections, severity) ==
    Cardinality({i \in DOMAIN detections : detections[i].severity = severity})

BiasResult(detections) ==
    [ detections |-> detections,
      severity_counts |-> [ High   |-> CountSeverity(detections, "High"),
                            Medium |-> CountSeverity(detections, "Medium"),
                            Low    |-> CountSeverity(detections, "Low") ] ]

\* detect_bias(output_text, whitelist); whitelist None is the empty list
detect_bias(text, whitelist) ==
    BiasResult(DetectionsFrom(lower(text), whitelist, 1, 1))

\* Lines 341-345 (the weights)
weights ==
    [High |-> 10, Medium |-> 5, Low |-> 2]

RECURSIVE SumOver(_, _)
SumOver(f, S) ==
    IF S = {} THEN 0
    ELSE LET x == CHOOSE y \in S : TRUE
         IN  f[x] + SumOver(f, S \ {x})

\* The doubled weighted sum without the cap
CalculateBiasScoreUncapped(severity_counts) ==
    2 * (10 * Get(severity_counts, "High", 0)
         + 5 * Get(severity_counts, "Medium", 0)
         + 2 * Get(severity_counts, "Low", 0))

\* The score is a number of points; min(int, 100.0) is numerically the
\* smaller of the two.
calculate_bias_score(severity_counts) ==
    LET weighted_sum ==
            SumOver([level \in DOMAIN weights |->
                        Get(severity_counts, level, 0) * weights[level]],
                    DOMAIN weights)
    IN  Min(weighted_sum * 2, 100)

\* [.!?]
IsTerminator(c) ==
    c \in {".", "!", "?"}

\* re.split(r'[.!?]+', text): the pieces between the runs of terminators,
\* from 0-based position p on
RECURSIVE SplitSentences(_, _)
SplitSentences(text, p) ==
    LET stops == {i \in (p + 1)..Len(text) : IsTerminator(text[i])}
    IN  IF stops = {} THEN <<Slice(text, p, Len(text))>>
        ELSE LET s == MinOf(stops)
                 e == MinOf({j \in s..Len(text) :
                                j = Len(text) \/ ~IsTerminator(text[j + 1])})
             IN  <<Slice(text, p, s - 1)>> \o SplitSentences(text, e)

\* The pieces that are not blank, untrimmed
ExtractSentencesUntrimmed(text) ==
    SelectSeq(SplitSentences(text, 0), LAMBDA piece : strip(piece) # <<>>)

\* Line 109 on the pieces of line 108
StripAll(pieces) ==
    SelectSeq([i \in DOMAIN pieces |-> strip(pieces[i])], LAMBDA piece : piece # <<>>)

extract_sentences(text) ==
    StripAll(SplitSentences(text, 0))

\* re.findall(r'\w+', text): the maximal runs of word characters, from
\* 1-based position p on
RECURSIVE WordsFrom(_, _)
WordsFrom(text, p) ==
    LET starts == {i \in p..Len(text) : IsWord(text[i])}
    IN  IF starts = {} THEN <<>>
        ELSE LET s == MinOf(starts)
                 e == MinOf({j \in s..Len(text) :
                                j = Len(text) \/ ~IsWord(text[j + 1])})
             IN  <<SubSeq(text, s, e)>> \o WordsFrom(text, e + 1)

\* Lines 131-135 on the two word sets; the threshold is the rational
\* threshold.n / threshold.d with d > 0
SimilarityReaches(sentence_words, claim_words, threshold) ==
    IF sentence_words \cup claim_words # {}
    THEN Cardinality(sentence_words \cap claim_words) * threshold.d
             >= threshold.n * Cardinality(sentence_words \cup claim_words)
    ELSE 0 >= threshold.n

\* fuzzy_match_claim without the test of line 127
FuzzyMatchClaimUnguarded(sentence, claim, threshold) ==
    SimilarityReaches(Range(WordsFrom(lower(sentence), 1)),
                      Range(WordsFrom(lower(claim), 1)), threshold)

fuzzy_match_claim(sentence, claim, threshold) ==
    IF Range(WordsFrom(lower(claim), 1)) = {} THEN FALSE
    ELSE SimilarityReaches(Range(WordsFrom(lower(sentence), 1)),
                           Range(WordsFrom(lower(claim), 1)), threshold)

\* ClaimMatch (metrics.py); the confidence is in tenths
ClaimMatch(decision, matched_claim, claim_type, confidence) ==
    [decision |-> decision, matched_claim |-> matched_claim,
     claim_type |-> claim_type, confidence |-> confidence]

\* The index of the claim at which the loops of lines 160 and 174 break,
\* 0 when they run to the end
FirstMatch(sentence, claims, threshold) ==
    LET hits == {i \in DOMAIN claims : fuzzy_match_claim(sentence, claims[i], threshold)}
    IN  IF hits = {} THEN 0 ELSE MinOf(hits)

\* One iteration of the loop of line 158 with the authorized claims looked
\* at before the prohibited ones (not the code: the reference C13 is
\* checked against)
AppendMatchesAuthorizedFirst(sentence, authorized_claims, prohibited_claims, p, a, found) ==
    LET after_authorized ==
            IF a > 0
            THEN Append(found, ClaimMatch(Supported, authorized_claims[a], "authorized", 8))
            ELSE found
        after_prohibited ==
            IF p > 0
            THEN Append(after_authorized,
                        ClaimMatch(Contradicted, prohibited_claims[p], "prohibited", 8))
            ELSE after_authorized
    IN  IF a = 0 /\ Len(after_prohibited) = 0 /\ Len(split(sentence)) > 5
        THEN Append(after_prohibited, ClaimMatch(Unsupported, sentence, "none", 5))
        ELSE after_prohibited

\* The same with every unmatched long sentence flagged (not the code: the
\* reference C14 is checked against)
AppendMatchesAlwaysFlag(sentence, authorized_claims, prohibited_claims, p, a, found) ==
    LET after_prohibited ==
            IF p > 0
            THEN Append(found, ClaimMatch(Contradicted, prohibited_claims[p], "prohibited", 8))
            ELSE found
        after_authorized ==
            IF a > 0
            THEN Append(after_prohibited,
                        ClaimMatch(Supported, authorized_claims[a], "authorized", 8))
            ELSE after_prohibited
    IN  IF a = 0 /\ p = 0 /\ Len(split(sentence)) > 5
        THEN Append(after_authorized, ClaimMatch(Unsupported, sentence, "none", 5))
        ELSE after_authorized

\* Lines 159-197 when the loop of line 160 broke at prohibited claim p and
\* the loop of line 174 at authorized claim a (0: no break): the list after
\* the iteration
AppendMatches(sentence, authorized_claims, prohibited_claims, p, a, found) ==
    LET after_prohibited ==
            IF p > 0
            THEN Append(found, ClaimMatch(Contradicted, prohibited_claims[p], "prohibited", 8))
            ELSE found
        after_authorized ==
            IF a > 0
            THEN Append(after_prohibited,
                        ClaimMatch(Supported, authorized_claims[a], "authorized", 8))
            ELSE after_prohibited
    IN  IF a = 0 /\ Len(after_authorized) = 0 /\ Len(split(sentence)) > 5
        THEN Append(after_authorized, ClaimMatch(Unsupported, sentence, "none", 5))
        ELSE after_authorized

\* The calls of fuzzy_match_claim a loop makes before it breaks at claim
\* first, or ends
CallsOf(sentence, claims, threshold, first, against) ==
    [i \in 1..(IF first > 0 THEN first ELSE Len(claims)) |->
        [sentence |-> sentence, claim |-> claims[i], threshold |-> threshold,
         against |-> against,
         returned |-> fuzzy_match_claim(sentence, claims[i], threshold)]]

---------------------------------------------------------------------------
(* The evaluation of one artifact: products, artifacts, and the steps      *)

\* Bounds of the model
MaxFrags ==
    2

MaxInserts ==
    1

MaxInsertAt ==
    1

NumSeeds ==
    2

\* Product dicts as yaml.safe_load returns them.  The snack bar has a
\* zero-valued quantity and no authorized claim; the fabric lists ten
\* authorized claims and has neither specs nor prohibited claims.
Watch ==
    [product_id |-> "watch", name |-> "Watch", region |-> "US",
     target_audience |-> <<"a","c","t","i","v","e"," ","c","o","m","m","u","t","e","r","s">>,
     specs |-> << <<"B","a","t","t","e","r","y",":"," ","2","0"," ","h","o","u","r","s">> >>,
     authorized_claims |-> << <<"l","o","n","g"," ","b","a","t","t","e","r","y"," ","l","i","f","e">> >>,
     prohibited_or_unsupported_claims |-> << <<"c","u","r","e","s"," ","d","i","s","e","a","s","e">> >>,
     disclaimers |-> << <<"B","a","t","t","e","r","y"," ","l","i","f","e"," ","v","a","r","i","e","s">> >>]

SnackBar ==
    [product_id |-> "bar", name |-> "Bar", region |-> "US",
     target_audience |-> <<"e","n","d","u","r","a","n","c","e"," ","a","t","h","l","e","t","e","s">>,
     specs |-> << <<"S","u","g","a","r",":"," ","0"," ","g">>,
              <<"P","r","o","t","e","i","n",":"," ","1","2",".","5"," ","g">> >>,
     authorized_claims |-> << >>,
     prohibited_or_unsupported_claims |-> << <<"c","o","n","t","a","i","n","s"," ","5"," ","g"," ","s","u","g","a","r">> >>,
     disclaimers |-> << >>]

Fabric ==
    [product_id |-> "fabric", name |-> "Fabric", region |-> "US",
     target_audience |-> <<"o","u","t","d","o","o","r"," ","f","a","m","i","l","i","e","s">>,
     authorized_claims |-> << <<"f","a","s","t">>,
                          <<"s","l","i","m">>,
                          <<"l","i","g","h","t">>,
                          <<"q","u","i","e","t">>,
                          <<"s","t","u","r","d","y">>,
                          <<"s","a","f","e">>,
                          <<"w","a","r","m">>,
                          <<"c","o","o","l">>,
                          <<"s","o","f","t">>,
                          <<"s","m","a","r","t">> >>,
     disclaimers |-> << >>]

Products ==
    {Watch, SnackBar, Fabric}

\* Three superlatives, and the same three with a fourth
ThreeSuperlatives ==
    <<"b","e","s","t"," ","p","e","r","f","e","c","t"," ","a","m","a","z","i","n","g"," ">>

FourSuperlatives ==
    <<"b","e","s","t"," ","p","e","r","f","e","c","t"," ","a","m","a","z","i","n","g"," ",
      "p","r","o","v","e","n"," ">>

\* The sections a generated artifact of each product is composed of
Fragments(product) ==
    CASE product.product_id = "watch" ->
           << <<"L","o","n","g"," ","b","a","t","t","e","r","y"," ","l","i","f","e","."," ">>,
              <<"l","o","n","g"," ","b","a","t","e","r","y"," ","l","i","f","e"," ">>,
              <<"c","u","r","e","s"," ","d","i","s","e","a","s","e"," ">>,
              <<"l","a","s","t","s"," ","2","5"," ","h","o","u","r","s"," ">>,
              <<"l","a","s","t","s"," ","2","1"," ","h","o","u","r","s"," ">>,
              <<"2","0"," ","m","i","n"," ">>,
              ThreeSuperlatives, FourSuperlatives >>
      [] product.product_id = "bar" ->
           << <<"Z","e","r","o"," ","s","u","g","a","r","."," ">>,
              <<"1","2",".","5"," ","g"," ","p","r","o","t","e","i","n"," ">>,
              ThreeSuperlatives, FourSuperlatives >>
      [] product.product_id = "fabric" ->
           << <<"f","a","s","t"," ","s","l","i","m"," ","l","i","g","h","t"," ","q","u","i","e","t"," ",
                "s","t","u","r","d","y"," ","s","a","f","e"," ","w","a","r","m"," ">>,
              <<"s","t","u","r","d","y"," ","s","a","f","e"," ","w","a","r","m"," ">>,
              <<"c","o","o","l"," ","s","o","f","t"," ">>,
              ThreeSuperlatives, FourSuperlatives >>

NoResult ==
    [status |-> "none"]

Returned(r) ==
    "decision" \in DOMAIN r

UpperTable ==
    [c \in CharSet |->
        IF \E i \in DOMAIN LowerAlpha : LowerAlpha[i] = c
        THEN UpperAlpha[CHOOSE i \in DOMAIN LowerAlpha : LowerAlpha[i] = c]
        ELSE c]

\* str.upper()
upper(text) ==
    SubSeq([i \in DOMAIN text |-> UpperTable[text[i]]], 1, Len(text))

\* text[:p] + phrase + text[p:]
InsertAt(text, p, phrase) ==
    Slice(text, 0, p) \o phrase \o Slice(text, p, Len(text))

\* No numeric claim is being validated
NumericIdle ==
    /\ numeric_claim = NoResult
    /\ verdict = NoResult

\* No evaluation pass is running
BiasIdle ==
    /\ bias_call = [fn |-> "none"]
    /\ bias_detections = <<>>
    /\ bias_counts = <<>>
    /\ bias_score = <<>>

ScreenIdle ==
    /\ screen_call = [fn |-> "none"]
    /\ sentences = <<>>
    /\ sentence_index = 0
    /\ matches = <<>>
    /\ calls = <<>>

\* No batch invocation, engine call or orchestrator command is running
JobIdle ==
    /\ index_file = [exists |-> FALSE, rows |-> <<>>]
    /\ output_files = {}
    /\ job_call = [fn |-> "none"]
    /\ rows = <<>>
    /\ rows_read = <<>>
    /\ pending = <<>>
    /\ job_index = 0
    /\ completed = 0
    /\ failed = 0
    /\ attempted = <<>>
    /\ engine_calls = <<>>
    /\ index_writes = 0
    /\ job_pc = "idle"
    /\ invocations = 0
    /\ previous = [fn |-> "none"]

EngineIdle ==
    /\ engine_call = [fn |-> "none"]
    /\ attempt = 0
    /\ requests = <<>>
    /\ engine_pc = "idle"
    /\ engine_result = NoResult

PipelineIdle ==
    /\ command = [fn |-> "none"]
    /\ matrix_exists = FALSE
    /\ steps = <<>>
    /\ exit_code = <<>>

ToolsIdle ==
    /\ JobIdle
    /\ EngineIdle
    /\ PipelineIdle

BatchIdle ==
    /\ completed_runs = <<>>
    /\ run_index = 0
    /\ per_run_results = <<>>
    /\ skipped = 0
    /\ errors = 0
    /\ products_cache = <<>>
    /\ evaluated = {}
    /\ per_run_json = <<>>
    /\ pc = "idle"

Init ==
    /\ product_yaml \in Products
    /\ output_text = <<>>
    /\ written = <<>>
    /\ inserts = 0
    /\ hashseed \in 0..(NumSeeds - 1)
    /\ result = NoResult
    /\ last = "start"
    /\ NumericIdle
    /\ BiasIdle
    /\ ScreenIdle
    /\ ToolsIdle
    /\ BatchIdle

\* The generator appends the next section of the artifact (sections come in
\* the template's order, each at most once).
Write(k) ==
    /\ result = NoResult
    /\ Len(written) < MaxFrags
    /\ k \in DOMAIN Fragments(product_yaml)
    /\ written # <<>> => k > written[Len(written)]
    /\ output_text' = output_text \o Fragments(product_yaml)[k]
    /\ written' = Append(written, k)
    /\ last' = "write"
    /\ UNCHANGED <<product_yaml, inserts, hashseed, result>>
    /\ UNCHANGED <<numericVars, batchVars, biasVars, screenVars, toolVars>>

\* evaluate_output(run_id, output_text, product_yaml) with the default
\* thresholds and tolerance
Evaluate ==
    /\ result' = evaluate_output("run", output_text, product_yaml,
                                 ThresholdAuthorized, ThresholdProhibited,
                                 NumericTolerance, hashseed)
    /\ last' = IF last = "insert" THEN "evaluate_inserted" ELSE "evaluate"
    /\ UNCHANGED <<product_yaml, output_text, written, inserts, hashseed>>
    /\ UNCHANGED <<numericVars, batchVars, biasVars, screenVars, toolVars>>

\* A prohibited claim of the product is added verbatim, in lower or upper
\* case, to an artifact that was judged free of contradictions.
InsertProhibited(i, p, shout) ==
    /\ last \in {"evaluate", "evaluate_inserted"}
    /\ Returned(result)
    /\ result.contradiction_rate.n = 0
    /\ inserts < MaxInserts
    /\ i \in DOMAIN Get(product_yaml, "prohibited_or_unsupported_claims", <<>>)
    /\ p \in 0..Len(output_text)
    /\ p <= MaxInsertAt \/ p = Len(output_text)
    /\ LET claim == product_yaml["prohibited_or_unsupported_claims"][i]
       IN  output_text' = InsertAt(output_text, p,
                                   IF shout THEN upper(claim) ELSE claim)
    /\ inserts' = inserts + 1
    /\ last' = "insert"
    /\ UNCHANGED <<product_yaml, written, hashseed, result>>
    /\ UNCHANGED <<numericVars, batchVars, biasVars, screenVars, toolVars>>

\* The evaluation is run again in a fresh interpreter process.
NewProcess ==
    /\ last \in {"evaluate", "evaluate_inserted"}
    /\ \E s \in 0..(NumSeeds - 1) :
         /\ s # hashseed
         /\ hashseed' = s
    /\ UNCHANGED <<product_yaml, output_text, written, inserts, result, last>>
    /\ UNCHANGED <<numericVars, batchVars, biasVars, screenVars, toolVars>>

Next ==
    \/ \E k \in DOMAIN Fragments(product_yaml) : Write(k)
    \/ Evaluate
    \/ \E i \in DOMAIN Get(product_yaml, "prohibited_or_unsupported_claims", <<>>),
          p \in 0..Len(output_text), shout \in BOOLEAN :
          InsertProhibited(i, p, shout)
    \/ NewProcess

Spec ==
    Init /\ [][Next]_vars

---------------------------------------------------------------------------
(* Properties of evaluate_output                                           *)

\* result is what evaluate_output returned for the artifact as it stands
Judged ==
    /\ last \in {"evaluate", "evaluate_inserted"}
    /\ Returned(result)

\* A rate n / d lies in [0, 1]
InUnitInterval(rate) ==
    /\ rate.d > 0
    /\ 0 <= rate.n
    /\ rate.n <= rate.d

\* C1: when evaluate_output finds contradiction_rate > 0 or at least one
\* numeric error, its decision is Contradicted, whatever the hit rate and
\* the number of overclaim phrases.
C1_ContradictionDominates ==
    Returned(result) =>
        (result.contradiction_rate.n > 0 \/ Len(result.numeric_errors) > 0
            => result.decision = Contradicted)

\* A prohibited phrase was found in an artifact that matches every
\* authorized claim; it has overclaim phrases as well since the phrase was
\* added
C1_Witness ==
    /\ Returned(result)
    /\ result.contradiction_rate.n > 0
    /\ result.hit_rate.n = result.hit_rate.d
    /\ Len(result.overclaims) > 0
    /\ result.decision = Contradicted

\* C2: adding an exact (case-insensitive) occurrence of a prohibited claim
\* to an artifact that evaluated with contradiction_rate = 0 makes
\* evaluate_output return Contradicted with contradiction_rate > 0.
C2_ProhibitedPhraseFlips ==
    last = "evaluate_inserted" =>
        /\ Returned(result)
        /\ result.decision = Contradicted
        /\ result.contradiction_rate.n > 0

\* C3: whenever a unit-error entry is recorded, the decision is
\* Contradicted.
C3_UnitErrorContradicts ==
    Returned(result) /\ Len(result.unit_errors) > 0
        => result.decision = Contradicted

\* A step that judges again an artifact that was judged and not changed since
SameInputJudgedAgain ==
    /\ last \in {"evaluate", "evaluate_inserted"}
    /\ last' = "evaluate"

\* C5: two evaluations of the same artifact against the same product, in
\* the same or in different processes, return identical results in every
\* field, the order of the lists included.
C5_SameInputSameResult ==
    [][SameInputJudgedAgain => (result' = result)]_vars

\* C8: the five rate metrics of every returned result lie in [0, 1].
C8_RatesInUnitInterval ==
    Returned(result) =>
        /\ InUnitInterval(result.hit_rate)
        /\ InUnitInterval(result.contradiction_rate)
        /\ InUnitInterval(result.unsupported_rate)
        /\ InUnitInterval(result.ambiguous_rate)
        /\ InUnitInterval(result.overclaim_rate)

\* The claims of a list that fuzzy_match reports as matched, in list order
Matching(text, claims, threshold) ==
    SelectSeq(claims, LAMBDA c : fuzzy_match(text, c, threshold).is_match)

\* |matched| / |claims|, and 0.0 for an empty list
RateOf(matched, claims) ==
    IF claims = <<>> THEN Zero ELSE [n |-> Len(matched), d |-> Len(claims)]

\* C9: hit_rate = |matched| / |claims| and contradiction_rate =
\* |violated| / |claims|, where matched and violated are exactly the claims
\* fuzzy_match reports as matched, in list order; both rates lie in [0, 1]
\* and are 0.0 for an empty claim list.
C9_RatesCountMatches ==
    Judged =>
        LET authorized == Get(product_yaml, "authorized_claims", <<>>)
            prohibited == Get(product_yaml, "prohibited_or_unsupported_claims", <<>>)
        IN  /\ result.matched_authorized
                 = Matching(output_text, authorized, ThresholdAuthorized)
            /\ result.hit_rate = RateOf(result.matched_authorized, authorized)
            /\ InUnitInterval(result.hit_rate)
            /\ result.violated_prohibited
                 = Matching(output_text, prohibited, ThresholdProhibited)
            /\ result.contradiction_rate
                 = RateOf(result.violated_prohibited, prohibited)
            /\ InUnitInterval(result.contradiction_rate)

\* Seven of ten authorized claims matched, another failed to match, and the
\* product has no prohibited claims at all
C9_Witness ==
    /\ Judged
    /\ Len(result.matched_authorized) = 7
    /\ result.hit_rate = [n |-> 7, d |-> 10]
    /\ "prohibited_or_unsupported_claims" \notin DOMAIN product_yaml
    /\ result.contradiction_rate = Zero

\* C10: with contradiction_rate = 0 and no numeric errors the decision is
\* Unsupported if more than 3 distinct overclaim phrases were detected,
\* otherwise Supported if hit_rate >= 0.7, otherwise Ambiguous if
\* hit_rate >= 0.3, otherwise Unsupported.
C10_DecisionTable ==
    Returned(result) /\ result.contradiction_rate.n = 0
                     /\ result.numeric_errors = <<>>
        => result.decision =
              IF Cardinality(Range(result.overclaims)) > 3 THEN Unsupported
              ELSE IF 10 * result.hit_rate.n >= 7 * result.hit_rate.d THEN Supported
              ELSE IF 10 * result.hit_rate.n >= 3 * result.hit_rate.d THEN Ambiguous
              ELSE Unsupported

\* Exactly three overclaim phrases and a hit rate of exactly 0.7: Supported
C10_Witness ==
    /\ Returned(result)
    /\ result.contradiction_rate.n = 0
    /\ result.numeric_errors = <<>>
    /\ Cardinality(Range(result.overclaims)) = 3
    /\ result.hit_rate = [n |-> 7, d |-> 10]
    /\ result.decision = Supported

\* evaluate_output has been called on the artifact as it stands
JudgedNow ==
    last \in {"evaluate", "evaluate_inserted"}

\* The quantities of the specs paired with the quantities of the artifact
QuantityPairs ==
    Pairs(SpecNumerics(Get(product_yaml, "specs", <<>>), 1),
          extract_numeric_claims(output_text))

\* The two quantities carry the same unit, ignoring case, and the output
\* value is farther from the spec value than the tolerance allows
Discrepant(pr) ==
    /\ lower(pr.spec.unit) = lower(pr.output.unit)
    /\ Abs(pr.output.value - pr.spec.value) * Scale > NumericTolerance * pr.spec.value

\* C25: evaluate_output records exactly one numeric error for every pair
\* (spec quantity, output quantity) whose units are equal ignoring case
\* and whose relative error exceeds the tolerance, over the cross product
\* of all spec quantities with all output quantities, and none for any
\* other pair; a spec of 20 hours against an output of 25 hours gives one
\* discrepancy of 25.0% and the decision Contradicted.
C25_OneErrorPerDiscrepantPair ==
    JudgedNow =>
        /\ Returned(result)
        /\ [k \in DOMAIN result.numeric_errors |->
               [spec |-> result.numeric_errors[k].spec,
                output |-> result.numeric_errors[k].output]]
              = SelectSeq(QuantityPairs, Discrepant)
        /\ (/\ product_yaml = Watch
            /\ Len(QuantityPairs) = 1
            /\ QuantityPairs[1].output.value = 25 * Scale)
               => /\ Len(result.numeric_errors) = 1
                  /\ result.numeric_errors[1].error.error_tenths = 250
                  /\ result.decision = Contradicted

\* C27: validate_numeric_claim returns a pair for every numeric input,
\* spec_value = 0 included, so that evaluate_output completes with a
\* decision when a spec quantity of value zero meets an output quantity of
\* the same unit.
C27_ZeroSpecJudged ==
    (/\ JudgedNow
     /\ \E k \in DOMAIN QuantityPairs :
            /\ QuantityPairs[k].spec.value = 0
            /\ lower(QuantityPairs[k].spec.unit) = lower(QuantityPairs[k].output.unit))
        => /\ Returned(result)
           /\ result.decision \in {Supported, Contradicted, Unsupported, Ambiguous}

---------------------------------------------------------------------------
(* One numeric claim against one spec quantity: validate_numeric_claim     *)
(*                                                                         *)
(* Spec values are whole numbers; claim values are whole or half numbers,  *)
(* or the spec value times 1.049.  On these values the exact arithmetic of *)
(* the model and the binary floating point of the code give the same       *)
(* verdict: differences of multiples of one half are exact, a quotient     *)
(* that equals 0.05 rounds to the double the literal 0.05 denotes, and     *)
(* every other relative error is farther from 0.05 than rounding reaches.  *)

MaxSpecUnits ==
    10

Half ==
    Scale \div 2

NumericUnits ==
    { <<"h","o","u","r","s">>, <<"m","i","n">>,
      <<"s","e","r","v","i","n","g","s">>, <<"S","e","r","v","i","n","g","s">>,
      <<"m">>, <<"M">> }

ClaimValues(spec_value) ==
    {k * Half : k \in 0..(2 * MaxSpecUnits + 4)}
        \cup {(spec_value \div Scale) * 1049}

NumericInit ==
    /\ product_yaml = NoResult
    /\ output_text = <<>>
    /\ written = <<>>
    /\ inserts = 0
    /\ hashseed = 0
    /\ result = NoResult
    /\ last = "start"
    /\ NumericIdle
    /\ BiasIdle
    /\ ScreenIdle
    /\ ToolsIdle
    /\ BatchIdle

\* A quantity of the output is paired with a quantity of the specs
StateClaim(claim_value, claim_unit, spec_value, spec_unit) ==
    /\ numeric_claim = NoResult
    /\ numeric_claim' = [claim_value |-> claim_value, claim_unit |-> claim_unit,
                         spec_value |-> spec_value, spec_unit |-> spec_unit]
    /\ UNCHANGED <<verdict, evalVars, batchVars, biasVars, screenVars, toolVars>>

\* validate_numeric_claim(claim_value, claim_unit, spec_value, spec_unit)
\* with the default tolerance
Validate ==
    /\ numeric_claim # NoResult
    /\ verdict = NoResult
    /\ verdict' = validate_numeric_claim(numeric_claim.claim_value,
                                         numeric_claim.claim_unit,
                                         numeric_claim.spec_value,
                                         numeric_claim.spec_unit,
                                         NumericTolerance)
    /\ UNCHANGED <<numeric_claim, evalVars, batchVars, biasVars, screenVars, toolVars>>

NumericNext ==
    \/ \E spec_units \in 0..MaxSpecUnits, claim_unit \in NumericUnits,
          spec_unit \in NumericUnits :
          \E claim_value \in ClaimValues(spec_units * Scale) :
             StateClaim(claim_value, claim_unit, spec_units * Scale, spec_unit)
    \/ Validate

NumericSpec ==
    NumericInit /\ [][NumericNext]_vars

\* The call compared a claim and a spec that carry the same unit and
\* returned a verdict
ComparedEqualUnits ==
    /\ numeric_claim # NoResult
    /\ verdict # NoResult
    /\ ~Raised(verdict)
    /\ numeric_claim.claim_unit = numeric_claim.spec_unit
    /\ numeric_claim.spec_value > 0

\* C4 (as amended): with tolerance 0.05 and equal units, a claim whose
\* relative error is exactly 5% (claim = spec * 1.05) is accepted as valid,
\* a claim of spec * 1.049 is accepted as valid, and a claim is flagged
\* invalid once its relative error exceeds 5%.
C4_BoundaryAccepted ==
    ComparedEqualUnits =>
        /\ numeric_claim.claim_value * 1000 = numeric_claim.spec_value * 1050
               => verdict.is_valid
        /\ numeric_claim.claim_value * 1000 = numeric_claim.spec_value * 1049
               => verdict.is_valid
        /\ numeric_claim.claim_value * 1000 > numeric_claim.spec_value * 1050
               => ~verdict.is_valid

\* C4 (as claimed): a claim of exactly spec * 1.05 is flagged invalid and a
\* claim of spec * 1.049 is accepted.
C4_BoundaryRejected ==
    ComparedEqualUnits =>
        /\ numeric_claim.claim_value * 1000 = numeric_claim.spec_value * 1050
               => ~verdict.is_valid
        /\ numeric_claim.claim_value * 1000 = numeric_claim.spec_value * 1049
               => verdict.is_valid

\* 10.5 hours against a spec of 10 hours has been judged valid
C4_Witness ==
    /\ ComparedEqualUnits
    /\ numeric_claim.spec_value = 10 * Scale
    /\ numeric_claim.claim_value = 21 * Half
    /\ numeric_claim.claim_unit = <<"h","o","u","r","s">>
    /\ verdict.is_valid

\* The call took the except branch of line 331 (a unit the registry does
\* not define, or two units of different dimensions) and returned
FellBack ==
    /\ numeric_claim # NoResult
    /\ verdict # NoResult
    /\ ~Raised(verdict)
    /\ \/ ~UnitDefined(numeric_claim.claim_unit)
       \/ ~UnitDefined(numeric_claim.spec_unit)
       \/ UnitEntry(numeric_claim.claim_unit).dim # UnitEntry(numeric_claim.spec_unit).dim

\* C16: when the unit library does not recognize a unit or the units are
\* dimensionally incompatible, validate_numeric_claim returns valid iff the
\* relative error of the raw values is within the tolerance if the two unit
\* strings are textually identical, and (False, unit mismatch) otherwise;
\* it never returns valid for two different units it could not convert.
C16_FallbackNeedsSameUnit ==
    FellBack =>
        IF numeric_claim.claim_unit = numeric_claim.spec_unit
        THEN verdict.is_valid
                = (Abs(numeric_claim.claim_value - numeric_claim.spec_value) * 1000
                      <= 50 * numeric_claim.spec_value)
        ELSE /\ ~verdict.is_valid
             /\ verdict.error.kind = "Unit mismatch"

---------------------------------------------------------------------------
(* The evaluation pass: evaluate() and evaluate_single_run of              *)
(* analysis/evaluate.py                                                    *)

\* The dict of lines 53-78 with a decision that also looks at the bias
\* score (not the code: the reference C11 is checked against)
SingleRunResultBiased(run_id, eval_result, bias) ==
    IF Raised(eval_result) THEN eval_result
    ELSE [run_id |-> run_id,
          decision |-> IF calculate_bias_score(bias.severity_counts) >= 40
                       THEN Contradicted ELSE eval_result.decision,
          hit_rate |-> eval_result.hit_rate,
          contradiction_rate |-> eval_result.contradiction_rate,
          unsupported_rate |-> eval_result.unsupported_rate,
          ambiguous_rate |-> eval_result.ambiguous_rate,
          overclaim_rate |-> eval_result.overclaim_rate,
          matched_authorized |-> eval_result.matched_authorized,
          violated_prohibited |-> eval_result.violated_prohibited,
          numeric_errors |-> eval_result.numeric_errors,
          unit_errors |-> eval_result.unit_errors,
          overclaims |-> eval_result.overclaims,
          bias_detections |-> bias.detections,
          bias_severity_counts |-> bias.severity_counts,
          bias_score |-> calculate_bias_score(bias.severity_counts),
          details |-> eval_result.details]

\* Lines 50-78, on the EvaluationResult and on what detect_bias returned.
\* An exception of evaluate_output (line 43) leaves the function before
\* line 50.
SingleRunResult(run_id, eval_result, bias) ==
    IF Raised(eval_result) THEN eval_result
    ELSE [run_id |-> run_id,
          decision |-> eval_result.decision,
          hit_rate |-> eval_result.hit_rate,
          contradiction_rate |-> eval_result.contradiction_rate,
          unsupported_rate |-> eval_result.unsupported_rate,
          ambiguous_rate |-> eval_result.ambiguous_rate,
          overclaim_rate |-> eval_result.overclaim_rate,
          matched_authorized |-> eval_result.matched_authorized,
          violated_prohibited |-> eval_result.violated_prohibited,
          numeric_errors |-> eval_result.numeric_errors,
          unit_errors |-> eval_result.unit_errors,
          overclaims |-> eval_result.overclaims,
          bias_detections |-> bias.detections,
          bias_severity_counts |-> bias.severity_counts,
          bias_score |-> calculate_bias_score(bias.severity_counts),
          details |-> eval_result.details]

evaluate_single_run(run_id, text, product, seed) ==
    SingleRunResult(run_id,
        evaluate_output(run_id, text, product, ThresholdAuthorized,
                        ThresholdProhibited, NumericTolerance, seed),
        detect_bias(text, <<>>))

\* A product whose only spec names no unit
Lamp ==
    [Watch EXCEPT !.product_id = "lamp", !.name = "Lamp",
                  !.specs = << <<"F","i","n","i","s","h",":"," ","m","a","t","t","e">> >>]

\* The products directory: a file that parses to a dict, or a file that is
\* not YAML.  There is no ghost.yaml.
ProductFiles ==
    { [product_id |-> "watch",  parses |-> TRUE,  data |-> Watch],
      [product_id |-> "bar",    parses |-> TRUE,  data |-> SnackBar],
      [product_id |-> "fabric", parses |-> TRUE,  data |-> Fabric],
      [product_id |-> "lamp",   parses |-> TRUE,  data |-> Lamp],
      [product_id |-> "broken", parses |-> FALSE, data |-> NoResult] }

ProductFile(product_id) ==
    CHOOSE f \in ProductFiles : f.product_id = product_id

ProductFileExists(product_id) ==
    \E f \in ProductFiles : f.product_id = product_id

YAMLError ==
    [exc |-> "YAMLError"]

\* load_product_yaml of a file that exists
load_product_yaml(product_id) ==
    IF ProductFile(product_id).parses THEN ProductFile(product_id).data
    ELSE YAMLError

\* The artifact files: text, or a file that exists and cannot be read.
\* There is no outputs/gone.txt.
OutputFiles ==
    { [path |-> "outputs/a1.txt", readable |-> TRUE,
       text |-> <<"L","o","n","g"," ","b","a","t","t","e","r","y"," ","l","i","f","e","."," ">>],
      [path |-> "outputs/a2.txt", readable |-> TRUE,
       text |-> <<"c","o","n","t","a","i","n","s"," ","5"," ","g"," ","s","u","g","a","r"," ">>],
      [path |-> "outputs/a3.txt", readable |-> TRUE,
       text |-> <<"L","o","n","g"," ","b","a","t","t","e","r","y"," ","l","i","f","e","."," ",
                  "c","u","r","e","s"," ","h","e","a","l","s"," ","t","r","e","a","t","s"," ">>],
      [path |-> "outputs/locked.txt", readable |-> FALSE, text |-> <<>>] }

OutputFile(path) ==
    CHOOSE f \in OutputFiles : f.path = path

OutputFileExists(path) ==
    \E f \in OutputFiles : f.path = path

\* Rows of experiments.csv with status 'completed', as csv.DictReader
\* returns them.  A row cut short before its run_id has run_id None.
Row(run_id, product_id, output_path) ==
    [run_id |-> run_id, product_id |-> product_id, output_path |-> output_path,
     status |-> "completed", engine |-> "openai", material_type |-> "faq.j2",
     temperature_label |-> "0.6", time_of_day_label |-> "morning",
     repetition_id |-> "1"]

RunRows ==
    { Row("run-watch", "watch", "outputs/a1.txt"),
      Row("run-bar", "bar", "outputs/a2.txt"),
      Row("run-cures", "watch", "outputs/a3.txt"),
      Row(None, "watch", "outputs/a1.txt"),
      Row("run-nopath", "watch", ""),
      Row("run-gone", "watch", "outputs/gone.txt"),
      Row("run-locked", "watch", "outputs/locked.txt"),
      Row("run-broken", "broken", "outputs/a1.txt"),
      Row("run-ghost", "ghost", "outputs/a1.txt"),
      Row("run-fabric", "fabric", "outputs/a1.txt"),
      Row("run-lamp", "lamp", "outputs/a1.txt") }

MaxRuns ==
    2

RECURSIVE SeqsUpTo(_, _)
SeqsUpTo(S, n) ==
    IF n = 0 THEN {<<>>}
    ELSE LET shorter == SeqsUpTo(S, n - 1)
         IN  shorter \cup {Append(q, x) : q \in shorter, x \in S}

\* The state of evaluate() when its loop starts (lines 100-136)
BatchInit ==
    /\ product_yaml = NoResult
    /\ output_text = <<>>
    /\ written = <<>>
    /\ inserts = 0
    /\ hashseed = 0
    /\ result = NoResult
    /\ last = "start"
    /\ NumericIdle
    /\ BiasIdle
    /\ ScreenIdle
    /\ ToolsIdle
    /\ completed_runs \in SeqsUpTo(RunRows, MaxRuns)
    /\ run_index = 0
    /\ per_run_results = <<>>
    /\ skipped = 0
    /\ errors = 0
    /\ products_cache = {}
    /\ evaluated = {}
    /\ per_run_json = <<>>
    /\ pc = "loop"

Cached(product_id) ==
    \E e \in products_cache : e.product_id = product_id

\* A product dict that an evaluation strips of its authorized claims (not
\* the code: the reference C19 is checked against)
ProductAfterEvaluationDrained(product) ==
    [key \in DOMAIN product |->
        IF key = "authorized_claims" THEN <<>> ELSE product[key]]

\* The product dict once evaluate_single_run has run on it.  The cache and
\* the call share the one dict object; evaluate_output reads it with .get
\* (metrics.py 494-496) and iterates over the lists, detect_bias never sees
\* it, and no statement writes to it.
ProductAfterEvaluation(product) ==
    [key \in DOMAIN product |-> product[key]]

\* The cache after the iteration for a run whose product dict is in it
CacheAfter(run, product) ==
    {e \in products_cache : e.product_id # run.product_id}
        \cup {[product_id |-> run.product_id,
               data |-> IF OutputFile(run.output_path).readable
                        THEN ProductAfterEvaluation(product) ELSE product]}

\* Lines 178-183
WithMetadata(single, run) ==
    [engine |-> run.engine, product_id |-> run.product_id,
     material_type |-> run.material_type, temperature |-> run.temperature_label,
     time_of_day |-> run.time_of_day_label, repetition_id |-> run.repetition_id]
        @@ single

\* Lines 156-189 for a run whose artifact file exists and whose product is
\* loaded: the artifact is read and judged
JudgeRun(run, product) ==
    IF ~OutputFile(run.output_path).readable
    THEN \* line 168: read_text raises outside the try block
         /\ pc' = "PermissionError"
         /\ UNCHANGED <<per_run_results, errors, evaluated, run_index>>
    ELSE /\ evaluated' = evaluated \cup {product}
         /\ pc' = pc
         /\ run_index' = run_index + 1
         /\ LET single == evaluate_single_run(run.run_id,
                              OutputFile(run.output_path).text, product, hashseed)
            IN  IF Raised(single)
                THEN /\ errors' = errors + 1
                     /\ UNCHANGED per_run_results
                ELSE /\ per_run_results' =
                            Append(per_run_results, WithMetadata(single, run))
                     /\ UNCHANGED errors

\* One iteration of the loop of lines 138-191
ProcessRun ==
    /\ pc = "loop"
    /\ run_index < Len(completed_runs)
    /\ LET run == completed_runs[run_index + 1]
       IN  IF run.run_id = None
           THEN \* line 143: run_id[:12] on None
                /\ pc' = "TypeError"
                /\ UNCHANGED <<run_index, per_run_results, skipped, errors,
                               products_cache, evaluated>>
           ELSE IF run.output_path = "" \/ ~OutputFileExists(run.output_path)
           THEN /\ skipped' = skipped + 1
                /\ run_index' = run_index + 1
                /\ UNCHANGED <<per_run_results, errors, products_cache, evaluated, pc>>
           ELSE IF Cached(run.product_id)
           THEN /\ JudgeRun(run, (CHOOSE e \in products_cache :
                                      e.product_id = run.product_id).data)
                /\ products_cache' =
                       CacheAfter(run, (CHOOSE e \in products_cache :
                                           e.product_id = run.product_id).data)
                /\ UNCHANGED skipped
           ELSE IF ~ProductFileExists(run.product_id)
           THEN /\ skipped' = skipped + 1
                /\ run_index' = run_index + 1
                /\ UNCHANGED <<per_run_results, errors, products_cache, evaluated, pc>>
           ELSE IF Raised(load_product_yaml(run.product_id))
           THEN \* line 163: the loader raises outside the try block
                /\ pc' = "YAMLError"
                /\ UNCHANGED <<run_index, per_run_results, skipped, errors,
                               products_cache, evaluated>>
           ELSE /\ products_cache' =
                       CacheAfter(run, load_product_yaml(run.product_id))
                /\ JudgeRun(run, load_product_yaml(run.product_id))
                /\ UNCHANGED skipped
    /\ UNCHANGED <<completed_runs, per_run_json, evalVars, numericVars,
                   biasVars, screenVars, toolVars>>

\* Lines 193-198: per_run.json is written once the loop is over
WriteResults ==
    /\ pc = "loop"
    /\ run_index = Len(completed_runs)
    /\ per_run_json' = <<per_run_results>>
    /\ pc' = "done"
    /\ UNCHANGED <<completed_runs, run_index, per_run_results, skipped, errors,
                   products_cache, evaluated, evalVars, numericVars,
                   biasVars, screenVars, toolVars>>

BatchNext ==
    \/ ProcessRun
    \/ WriteResults

BatchSpec ==
    BatchInit /\ [][BatchNext]_vars

\* C6: a failure on one completed run never aborts the pass: the run is
\* counted as skipped or errored, the later runs are still processed, and
\* per_run.json is written.
C6_FailureNeverAborts ==
    /\ pc \in {"loop", "done"}
    /\ pc = "done" =>
          /\ per_run_json # <<>>
          /\ Len(per_run_results) + skipped + errors = Len(completed_runs)

\* C7: evaluate_output is never called with a product that is missing a
\* required field or has a spec string without a unit token.
C7_ValidatedBeforeEvaluated ==
    \A product \in evaluated : ProductValid(product)

\* What the decision of lines 559-568 reads of a per-run record
Signals(r) ==
    <<r.hit_rate, r.contradiction_rate, Len(r.numeric_errors), Len(r.overclaims)>>

\* C11: the decision is independent of the bias axis: two evaluated runs
\* with the same claim-match, numeric-error and overclaim signals carry the
\* same decision whatever their bias detections, severity counts and bias
\* scores are, and the bias score is reported next to the decision.
C11_DecisionIgnoresBias ==
    \A i, j \in DOMAIN per_run_results :
        /\ per_run_results[i].bias_score
               = calculate_bias_score(per_run_results[i].bias_severity_counts)
        /\ Signals(per_run_results[i]) = Signals(per_run_results[j])
               => per_run_results[i].decision = per_run_results[j].decision

\* Two runs with the same signals, one without bias findings and one with a
\* bias score of 60, have been evaluated
C11_Witness ==
    \E i, j \in DOMAIN per_run_results :
        /\ Signals(per_run_results[i]) = Signals(per_run_results[j])
        /\ per_run_results[i].bias_score = 0
        /\ per_run_results[j].bias_score = 60
        /\ per_run_results[j].bias_detections # <<>>
        /\ per_run_results[i].decision = per_run_results[j].decision

\* The pass is over: its summary was printed and per_run.json written, or
\* an exception left evaluate()
PassEnded ==
    pc \notin {"idle", "loop"}

\* The loop body gets as far as evaluate_single_run for this run
Evaluable(run) ==
    /\ run.run_id # None
    /\ run.output_path # ""
    /\ OutputFileExists(run.output_path)
    /\ OutputFile(run.output_path).readable
    /\ ProductFileExists(run.product_id)
    /\ ProductFile(run.product_id).parses

\* evaluate_single_run on the run alone, with its product freshly loaded
EvaluatedAlone(run) ==
    evaluate_single_run(run.run_id, OutputFile(run.output_path).text,
                        load_product_yaml(run.product_id), hashseed)

\* C18: at the end of an evaluation pass every completed run is accounted
\* for in exactly one of the three summary counts:
\* len(per_run_results) + skipped + errors is the number of completed runs,
\* and a run whose evaluation raised is counted in errors and has no entry
\* in per_run_results.
C18_EveryRunCounted ==
    PassEnded =>
        /\ Len(per_run_results) + skipped + errors = Len(completed_runs)
        /\ errors = Cardinality({i \in DOMAIN completed_runs :
                                    /\ Evaluable(completed_runs[i])
                                    /\ Raised(EvaluatedAlone(completed_runs[i]))})
        /\ \A i \in DOMAIN completed_runs :
               (Evaluable(completed_runs[i]) /\ Raised(EvaluatedAlone(completed_runs[i])))
                   => \A k \in DOMAIN per_run_results :
                          per_run_results[k].run_id # completed_runs[i].run_id

EngineComparisonKeys ==
    {"engine", "metrics", "numeric_error_count", "unit_error_count"}

MetricsKeys ==
    {"total_claims", "hit_rate", "contradiction_rate", "unsupported_rate",
     "overclaim_rate"}

GroupByKeys ==
    {"engine", "product_id", "material_type", "temperature"}

KeyError ==
    [exc |-> "KeyError"]

\* Lines 72-127: an empty list gives an empty frame; a key that a record
\* lacks raises KeyError; else one row of statistics per engine
calculate_engine_comparison(eval_results) ==
    IF eval_results = <<>> THEN <<>>
    ELSE IF \E k \in DOMAIN eval_results :
               ~(EngineComparisonKeys \subseteq DOMAIN eval_results[k])
    THEN KeyError
    ELSE IF \E k \in DOMAIN eval_results :
               ~(MetricsKeys \subseteq DOMAIN eval_results[k].metrics)
    THEN KeyError
    ELSE LET engines == {eval_results[k].engine : k \in DOMAIN eval_results}
         IN  [engine \in engines |->
                 [runs |-> Cardinality({k \in DOMAIN eval_results :
                                           eval_results[k].engine = engine})]]

\* C28: every record evaluate() writes to per_run.json holds every field
\* the reporting step reads (engine, product_id, material_type,
\* temperature, numeric_error_count, unit_error_count, and the rates and
\* total_claims under metrics), so that the engine comparison of the
\* reporting step completes on the file whenever it holds a record.
C28_RecordsHoldReportedFields ==
    per_run_json # <<>> =>
        /\ \A k \in DOMAIN per_run_json[1] :
               /\ (EngineComparisonKeys \cup GroupByKeys) \subseteq DOMAIN per_run_json[1][k]
               /\ MetricsKeys \subseteq DOMAIN per_run_json[1][k].metrics
        /\ ~Raised(calculate_engine_comparison(per_run_json[1]))

---------------------------------------------------------------------------
(* Bias screening on its own: one call of detect_bias followed, as in      *)
(* evaluate_single_run, by calculate_bias_score on its counts; or one call *)
(* of calculate_bias_score on a dict of the caller's making                *)

MaxBiasWords ==
    2

MaxCount ==
    10

BiasWords ==
    { <<"b","e","s","t"," ">>,
      <<"C","e","r","t","a","i","n","l","y"," ">>,
      <<"a","l","w","a","y","s"," ">>,
      <<"T","o","p","-","R","a","t","e","d"," ">>,
      <<"p","l","a","i","n"," ">> }

RECURSIVE Concat(_)
Concat(parts) ==
    IF parts = <<>> THEN <<>> ELSE Head(parts) \o Concat(Tail(parts))

BiasTexts ==
    {Concat(ws) : ws \in SeqsUpTo(BiasWords, MaxBiasWords)}

Whitelists ==
    { <<>>,
      << <<"b","e","s","t">> >>,
      << <<"c","e","r","t","a","i","n","l","y">> >>,
      << <<"a","l","w","a","y","s">>, <<"t","o","p","-","r","a","t","e","d">> >> }

\* Dicts of non-negative counts; a level may be missing
CountDicts ==
    UNION {[levels -> 0..MaxCount] : levels \in SUBSET (DOMAIN weights)}

BiasInit ==
    /\ product_yaml = NoResult
    /\ output_text = <<>>
    /\ written = <<>>
    /\ inserts = 0
    /\ hashseed = 0
    /\ result = NoResult
    /\ last = "start"
    /\ NumericIdle
    /\ BiasIdle
    /\ ScreenIdle
    /\ ToolsIdle
    /\ BatchIdle

DetectBias ==
    /\ bias_call.fn = "none"
    /\ \E text \in BiasTexts, whitelist \in Whitelists :
          /\ bias_call' = [fn |-> "detect_bias", output_text |-> text,
                           whitelist |-> whitelist]
          /\ bias_detections' = detect_bias(text, whitelist).detections
          /\ bias_counts' = detect_bias(text, whitelist).severity_counts
    /\ UNCHANGED <<bias_score, evalVars, numericVars, batchVars, screenVars, toolVars>>

GiveCounts ==
    /\ bias_call.fn = "none"
    /\ \E given \in CountDicts :
          /\ bias_call' = [fn |-> "calculate_bias_score"]
          /\ bias_counts' = given
    /\ UNCHANGED <<bias_detections, bias_score, evalVars, numericVars, batchVars,
                   screenVars, toolVars>>

CalculateBiasScore ==
    /\ bias_call.fn # "none"
    /\ bias_score = <<>>
    /\ bias_score' = <<calculate_bias_score(bias_counts)>>
    /\ UNCHANGED <<bias_call, bias_detections, bias_counts, evalVars, numericVars,
                   batchVars, screenVars, toolVars>>

BiasNext ==
    \/ DetectBias
    \/ GiveCounts
    \/ CalculateBiasScore

BiasSpec ==
    BiasInit /\ [][BiasNext]_vars

\* The count of a level in a dict, 0 when the level is missing
CountOf(level) ==
    IF level \in DOMAIN bias_counts THEN bias_counts[level] ELSE 0

\* C12: for all non-negative severity counts calculate_bias_score returns
\* min(2 * (10*High + 5*Medium + 2*Low), 100): the score lies in [0, 100],
\* is 0 when all counts are 0, does not decrease when a count grows, and is
\* 100 from High = 10 on.
C12_BiasScoreFormula ==
    bias_score # <<>> =>
        LET doubled == 2 * (10 * CountOf("High") + 5 * CountOf("Medium")
                            + 2 * CountOf("Low"))
            score == bias_score[1]
        IN  /\ score = IF doubled <= 100 THEN doubled ELSE 100
            /\ score >= 0 /\ score <= 100
            /\ (doubled = 0) = (score = 0)
            /\ \A level \in {"High", "Medium", "Low"} :
                   calculate_bias_score(
                       [l \in {"High", "Medium", "Low"} |->
                           CountOf(l) + IF l = level THEN 1 ELSE 0]) >= score
            /\ CountOf("High") >= 10 => score = 100

\* The score of ten High findings and nothing else is 100
C12_Witness ==
    /\ bias_call.fn = "calculate_bias_score"
    /\ CountOf("High") = 10 /\ CountOf("Medium") = 0 /\ CountOf("Low") = 0
    /\ bias_score = <<100>>

\* The patterns of the lexicon
LexiconPatterns ==
    UNION {Range(BIAS_LEXICON[c].patterns) : c \in DOMAIN BIAS_LEXICON}

\* The matches of a pattern in the lower-cased text that the whitelist does
\* not exclude
OpenMatches(pattern) ==
    SelectSeq(findall(pattern, lower(bias_call.output_text), 0),
              LAMBDA m : m \notin Range(bias_call.whitelist))

\* C17: detect_bias returns exactly one BiasDetection for every lexicon
\* pattern with at least one match that the whitelist does not exclude and
\* none for any other pattern; the matches list of a detection is non-empty
\* and holds no whitelisted phrase; severity_counts[s] is the number of
\* detections of severity s.
C17_OneDetectionPerOpenPattern ==
    bias_call.fn = "detect_bias" =>
        /\ \A pattern \in LexiconPatterns :
               Cardinality({k \in DOMAIN bias_detections :
                               bias_detections[k].pattern = pattern})
                   = IF OpenMatches(pattern) # <<>> THEN 1 ELSE 0
        /\ \A k \in DOMAIN bias_detections :
               /\ bias_detections[k].matches # <<>>
               /\ \A m \in Range(bias_detections[k].matches) :
                      m \notin Range(bias_call.whitelist)
        /\ \A s \in {"High", "Medium", "Low"} :
               bias_counts[s] = Cardinality({k \in DOMAIN bias_detections :
                                                bias_detections[k].severity = s})

---------------------------------------------------------------------------
(* Sentence-level screening: one call of screen_output, one step per       *)
(* iteration of its loop over the sentences                                *)

MaxSentences ==
    2

\* Pieces of an artifact: a sentence that resembles both authorized claims,
\* one that resembles a prohibited claim as well (2 of 5 words), a sentence
\* of six words that resembles no claim, one of three words that shares one
\* word with the authorized claims, a blank sentence, and words that
\* resemble the prohibited claim.
ScreenFragments ==
    { <<"L","o","n","g"," ","b","a","t","t","e","r","y"," ","l","i","f","e","."," ">>,
      <<"L","o","n","g"," ","b","a","t","t","e","r","y"," ","l","i","f","e"," ","c","u","r","e","s"," ","d","i","s","e","a","s","e","!"," ">>,
      <<"T","h","i","s"," ","w","a","t","c","h"," ","i","s"," ","r","e","a","l","l","y"," ","v","e","r","y"," ","n","i","c","e","?","!"," ">>,
      <<"B","a","t","t","e","r","y"," ","i","s"," ","n","i","c","e",".","."," ">>,
      <<" ","!"," ">>,
      <<"C","u","r","e","s"," ","d","i","s","e","a","s","e"," ","t","o","d","a","y"," ">> }

ScreenTexts ==
    {Concat(fs) : fs \in SeqsUpTo(ScreenFragments, MaxSentences)}

\* The claim lists of a product; the first prohibited claim has no word
ClaimLists ==
    { [authorized_claims |-> << <<"l","o","n","g"," ","b","a","t","t","e","r","y"," ","l","i","f","e">>,
                               <<"b","a","t","t","e","r","y"," ","l","i","f","e"," ","l","a","s","t","s"," ","l","o","n","g">> >>,
       prohibited_claims |-> << <<"-","-">>,
                                <<"c","u","r","e","s"," ","d","i","s","e","a","s","e">> >>],
      [authorized_claims |-> <<>>, prohibited_claims |-> <<>>] }

\* 0.4 is the default of screen_output (line 142)
Thresholds ==
    { [n |-> 0, d |-> 1], [n |-> 4, d |-> 10] }

ScreenInit ==
    /\ product_yaml = NoResult
    /\ output_text = <<>>
    /\ written = <<>>
    /\ inserts = 0
    /\ hashseed = 0
    /\ result = NoResult
    /\ last = "start"
    /\ NumericIdle
    /\ BiasIdle
    /\ ScreenIdle
    /\ ToolsIdle
    /\ BatchIdle

\* Lines 155-156
CallScreenOutput ==
    /\ screen_call.fn = "none"
    /\ \E text \in ScreenTexts, lists \in ClaimLists, threshold \in Thresholds :
          /\ screen_call' = [fn |-> "screen_output", output_text |-> text,
                             authorized_claims |-> lists.authorized_claims,
                             prohibited_claims |-> lists.prohibited_claims,
                             fuzzy_threshold |-> threshold]
          /\ sentences' = extract_sentences(text)
    /\ UNCHANGED <<sentence_index, matches, calls>>
    /\ UNCHANGED <<evalVars, numericVars, batchVars, biasVars, toolVars>>

\* Lines 159-197 for one sentence
ScreenIteration(sentence, p, a) ==
    /\ matches' = AppendMatches(sentence, screen_call.authorized_claims,
                                screen_call.prohibited_claims, p, a, matches)
    /\ calls' = CallsOf(sentence, screen_call.prohibited_claims,
                        screen_call.fuzzy_threshold, p, "prohibited")
                 \o CallsOf(sentence, screen_call.authorized_claims,
                            screen_call.fuzzy_threshold, a, "authorized")

\* One iteration of the loop of line 158
ScreenSentence ==
    /\ screen_call.fn = "screen_output"
    /\ sentence_index < Len(sentences)
    /\ sentence_index' = sentence_index + 1
    /\ ScreenIteration(sentences[sentence_index + 1],
                       FirstMatch(sentences[sentence_index + 1],
                                  screen_call.prohibited_claims,
                                  screen_call.fuzzy_threshold),
                       FirstMatch(sentences[sentence_index + 1],
                                  screen_call.authorized_claims,
                                  screen_call.fuzzy_threshold))
    /\ UNCHANGED <<screen_call, sentences>>
    /\ UNCHANGED <<evalVars, numericVars, batchVars, biasVars, toolVars>>

\* Line 199
ReturnMatches ==
    /\ screen_call.fn = "screen_output"
    /\ sentence_index = Len(sentences)
    /\ screen_call' = [screen_call EXCEPT !.fn = "returned"]
    /\ UNCHANGED <<sentences, sentence_index, matches, calls>>
    /\ UNCHANGED <<evalVars, numericVars, batchVars, biasVars, toolVars>>

ScreenNext ==
    \/ CallScreenOutput
    \/ ScreenSentence
    \/ ReturnMatches

ScreenSpec ==
    ScreenInit /\ [][ScreenNext]_vars

\* The maximal runs of text without a separator, as 0-based half-open
\* intervals; a run may be empty
RunsBetween(text, IsSeparator(_)) ==
    { <<a, MinOf({b \in a..Len(text) : b = Len(text) \/ IsSeparator(text[b + 1])})>> :
        a \in {q \in 0..Len(text) : q = 0 \/ IsSeparator(text[q])} }

\* The claims of a list that a sentence resembles, by index
Resembled(sentence, claims) ==
    {i \in DOMAIN claims :
        fuzzy_match_claim(sentence, claims[i], screen_call.fuzzy_threshold)}

\* What an iteration added to the list
Added ==
    SubSeq(matches', Len(matches) + 1, Len(matches'))

\* The loop has just dealt with a sentence
SentenceDone ==
    sentence_index' = sentence_index + 1

\* C13: screen_output deals with the sentences in text order and, for each,
\* looks at the prohibited claims before the authorized ones; an iteration
\* records at most one Contradicted match, for the first prohibited claim
\* in list order that matches, and at most one Supported match, for the
\* first authorized claim in list order that matches, and a Contradicted
\* match of a sentence precedes its Supported match.
C13_ProhibitedThenAuthorized ==
    [][SentenceDone =>
        LET sentence == sentences[sentence_index']
            P == Resembled(sentence, screen_call.prohibited_claims)
            A == Resembled(sentence, screen_call.authorized_claims)
            contradicted == SelectSeq(Added, LAMBDA m : m.decision = Contradicted)
            supported == SelectSeq(Added, LAMBDA m : m.decision = Supported)
        IN  /\ sentences' = extract_sentences(screen_call.output_text)
            /\ SubSeq(matches', 1, Len(matches)) = matches
            /\ \A k \in DOMAIN calls' : calls'[k].sentence = sentence
            /\ \A j, k \in DOMAIN calls' :
                   (calls'[j].against = "prohibited" /\ calls'[k].against = "authorized")
                       => j < k
            /\ contradicted =
                   IF P = {} THEN <<>>
                   ELSE << [decision |-> Contradicted, claim_type |-> "prohibited",
                            matched_claim |-> screen_call.prohibited_claims[MinOf(P)],
                            confidence |-> 8] >>
            /\ supported =
                   IF A = {} THEN <<>>
                   ELSE << [decision |-> Supported, claim_type |-> "authorized",
                            matched_claim |-> screen_call.authorized_claims[MinOf(A)],
                            confidence |-> 8] >>
            /\ \A j, k \in DOMAIN Added :
                   (Added[j].decision = Contradicted /\ Added[k].decision = Supported)
                       => j < k
    ]_vars

\* A sentence that resembles the second prohibited claim and both authorized
\* claims has been recorded as Contradicted, then Supported by the first
\* authorized claim
C13_Witness ==
    /\ sentence_index = 1
    /\ Cardinality(Resembled(sentences[1], screen_call.authorized_claims)) = 2
    /\ Resembled(sentences[1], screen_call.prohibited_claims) = {2}
    /\ screen_call.fuzzy_threshold.n = 4
    /\ Len(matches) = 2
    /\ matches[1].decision = Contradicted
    /\ matches[1].matched_claim = screen_call.prohibited_claims[2]
    /\ matches[2].decision = Supported
    /\ matches[2].matched_claim = screen_call.authorized_claims[1]

\* C14: a sentence is flagged Unsupported (claim_type none, matched_claim
\* the sentence) if and only if it matches no prohibited and no authorized
\* claim, has more than 5 whitespace-separated words, and no ClaimMatch of
\* any kind was recorded for an earlier sentence of the output.
C14_UnsupportedOnlyFirst ==
    [][SentenceDone =>
        LET sentence == sentences[sentence_index']
        IN  (\E k \in DOMAIN Added :
                /\ Added[k].decision = Unsupported
                /\ Added[k].claim_type = "none"
                /\ Added[k].matched_claim = sentence)
            <=> /\ Resembled(sentence, screen_call.prohibited_claims) = {}
                /\ Resembled(sentence, screen_call.authorized_claims) = {}
                /\ Cardinality(RunsBetween(sentence, IsSpace)
                                   \ {r \in RunsBetween(sentence, IsSpace) : r[1] = r[2]}) > 5
                /\ matches = <<>>
    ]_vars

\* Two sentences of six words that resemble no claim: the first was
\* flagged, the second was not
C14_Witness ==
    /\ sentence_index = 2
    /\ Len(split(sentences[2])) = 6
    /\ calls # <<>>
    /\ \A k \in DOMAIN calls : ~calls[k].returned
    /\ matches = << [decision |-> Unsupported, claim_type |-> "none",
                     matched_claim |-> sentences[1], confidence |-> 5] >>

\* The lower-case word tokens of a string
TokenSet(text) ==
    {Slice(lower(text), r[1], r[2]) :
        r \in {q \in RunsBetween(text, LAMBDA c : ~IsWord(c)) : q[1] < q[2]}}

SentencesOf(text) ==
    LET R == {r \in RunsBetween(text, IsTerminator) :
                 \E i \in (r[1] + 1)..r[2] : ~IsSpace(text[i])}
    IN  [k \in 1..Cardinality(R) |->
            LET r == CHOOSE q \in R : Cardinality({o \in R : o[1] < q[1]}) = k - 1
                first == MinOf({i \in (r[1] + 1)..r[2] : ~IsSpace(text[i])})
                last_ == MinOf({-i : i \in {j \in (r[1] + 1)..r[2] : ~IsSpace(text[j])}})
            IN  SubSeq(text, first, -last_)]

\* C20: extract_sentences returns, in text order, the maximal runs of
\* characters between runs of the terminators . ! ?, each trimmed of
\* surrounding whitespace; every element is non-empty, neither starts nor
\* ends with whitespace and holds no terminator; blank runs are dropped and
\* the empty text yields the empty sequence.
C20_TrimmedSentences ==
    screen_call.fn # "none" =>
        /\ sentences = SentencesOf(screen_call.output_text)
        /\ \A k \in DOMAIN sentences :
               /\ sentences[k] # <<>>
               /\ ~IsSpace(sentences[k][1])
               /\ ~IsSpace(sentences[k][Len(sentences[k])])
               /\ \A i \in DOMAIN sentences[k] : ~IsTerminator(sentences[k][i])
        /\ screen_call.output_text = <<>> => sentences = <<>>

\* An artifact with a doubled terminator and words after the last
\* terminator gave two trimmed sentences
C20_Witness ==
    /\ screen_call.fn # "none"
    /\ screen_call.output_text = <<"B","a","t","t","e","r","y"," ","i","s"," ","n","i","c","e",".","."," ">>
                                    \o <<"C","u","r","e","s"," ","d","i","s","e","a","s","e"," ","t","o","d","a","y"," ">>
    /\ sentences = << <<"B","a","t","t","e","r","y"," ","i","s"," ","n","i","c","e">>, <<"C","u","r","e","s"," ","d","i","s","e","a","s","e"," ","t","o","d","a","y">> >>


\* C26: the sequence screen_output builds, and so the one it returns, holds
\* at most one Unsupported ClaimMatch, and an Unsupported ClaimMatch is its
\* first element: once a match is recorded, no later sentence is flagged.
C26_UnsupportedOnlyAtFront ==
    \A k \in DOMAIN matches : matches[k].decision = Unsupported => k = 1

\* A returned sequence of two: the first sentence was flagged, the second
\* one was recorded as Supported
C26_Witness ==
    /\ screen_call.fn = "returned"
    /\ Len(sentences) = 2
    /\ Len(matches) = 2
    /\ matches[1].decision = Unsupported
    /\ matches[1].matched_claim = sentences[1]
    /\ matches[2].decision = Supported


---------------------------------------------------------------------------
(* Engine clients: call_openai, call_anthropic, call_google and            *)
(* call_mistral of runner/engines.  One call, one step per API request.    *)
(* The four functions share the loop "for attempt in range(max_retries)";  *)
(* they differ in the exceptions they catch, and call_google also counts   *)
(* tokens with two more requests inside its try block.                     *)

\* Largest max_retries tried (the default is 3)
MaxRetriesTried ==
    3

Clients ==
    {"call_openai", "call_anthropic", "call_google", "call_mistral"}

\* What a request can come back with: a response, a rate-limit error, a
\* timeout, or another error of the API
Outcomes ==
    {"ok", "rate_limit", "timeout", "error"}

\* The exception a client sees for an outcome: openai and anthropic raise
\* RateLimitError, APITimeoutError or another APIError; google raises
\* ResourceExhausted, DeadlineExceeded or another exception; mistral raises
\* SDKError with status_code 429, 504 or another status
ExceptionOf(client, outcome) ==
    CASE client \in {"call_openai", "call_anthropic"} ->
           [exc |-> CASE outcome = "rate_limit" -> "RateLimitError"
                      [] outcome = "timeout" -> "APITimeoutError"
                      [] OTHER -> "APIError",
            status_code |-> 0]
      [] client = "call_google" ->
           [exc |-> CASE outcome = "rate_limit" -> "ResourceExhausted"
                      [] outcome = "timeout" -> "DeadlineExceeded"
                      [] OTHER -> "Exception",
            status_code |-> 0]
      [] client = "call_mistral" ->
           [exc |-> "SDKError",
            status_code |-> CASE outcome = "rate_limit" -> 429
                              [] outcome = "timeout" -> 504
                              [] OTHER -> 500]

\* The except clauses that end in "continue" when the attempt is not the
\* last one (openai 64-74, anthropic 96-106, google 157-169, mistral 79-88)
Retried(client, e) ==
    CASE client \in {"call_openai", "call_anthropic"} ->
           e.exc \in {"RateLimitError", "APITimeoutError"}
      [] client = "call_google" ->
           e.exc \in {"ResourceExhausted", "DeadlineExceeded"}
      [] client = "call_mistral" ->
           e.exc = "SDKError" /\ e.status_code \in {429, 504}

\* The raise after the loop (openai 80, anthropic 112, google 175,
\* mistral 93)
MaxRetriesExceeded(client) ==
    [exc |-> CASE client \in {"call_openai", "call_anthropic"} -> "APIError"
               [] client = "call_google" -> "Exception"
               [] client = "call_mistral" -> "SDKError",
     status_code |-> 0]

\* The missing API key: the OpenAI constructor refuses it (line 40), the
\* other clients raise ValueError themselves (anthropic 49, google 49,
\* mistral 49)
MissingKey(client) ==
    [exc |-> IF client = "call_openai" THEN "OpenAIError" ELSE "ValueError",
     status_code |-> 0]

\* The dict a client returns for the response of an attempt
Response(client, n) ==
    [output_text |-> "output_text", from_attempt |-> n]

EngineInit ==
    /\ product_yaml = NoResult
    /\ output_text = <<>>
    /\ written = <<>>
    /\ inserts = 0
    /\ hashseed = 0
    /\ result = NoResult
    /\ last = "start"
    /\ NumericIdle
    /\ BiasIdle
    /\ ScreenIdle
    /\ BatchIdle
    /\ JobIdle
    /\ PipelineIdle
    /\ EngineIdle

\* The call up to the loop
CallClient(client, max_retries, api_key) ==
    /\ engine_pc = "idle"
    /\ engine_call' = [fn |-> client, max_retries |-> max_retries]
    /\ IF api_key
       THEN /\ engine_pc' = "loop"
            /\ UNCHANGED engine_result
       ELSE /\ engine_pc' = "raised"
            /\ engine_result' = MissingKey(client)
    /\ UNCHANGED <<attempt, requests>>
    /\ UNCHANGED <<evalVars, numericVars, batchVars, biasVars, screenVars,
                   jobVars, pipelineVars>>

\* What the except clauses do with exception e of the current attempt
Handle(e) ==
    IF Retried(engine_call.fn, e) /\ attempt < engine_call.max_retries - 1
    THEN /\ attempt' = attempt + 1
         /\ engine_pc' = "loop"
         /\ UNCHANGED engine_result
    ELSE /\ engine_pc' = "raised"
         /\ engine_result' = e
         /\ UNCHANGED attempt

\* One iteration of the loop: the generation request and what follows it
Generate(outcome) ==
    /\ engine_pc = "loop"
    /\ attempt < engine_call.max_retries
    /\ requests' = Append(requests, [api |-> "generate", attempt |-> attempt,
                                     outcome |-> outcome])
    /\ IF outcome = "ok"
       THEN IF engine_call.fn = "call_google"
            THEN \* the response is in hand; lines 82-137 build the text
                 /\ engine_pc' = "counting"
                 /\ UNCHANGED <<attempt, engine_result>>
            ELSE /\ engine_pc' = "returned"
                 /\ engine_result' = Response(engine_call.fn, attempt)
                 /\ UNCHANGED attempt
       ELSE Handle(ExceptionOf(engine_call.fn, outcome))
    /\ UNCHANGED engine_call
    /\ UNCHANGED <<evalVars, numericVars, batchVars, biasVars, screenVars,
                   jobVars, pipelineVars>>

\* google_client.py 140-155: count_tokens(prompt) inside the try block of
\* the attempt, then count_tokens(output_text) inside a try of its own
\* whose bare except sets completion_tokens to 0
CountTokens(prompt_outcome, text_outcome) ==
    /\ engine_pc = "counting"
    /\ IF prompt_outcome = "ok"
       THEN /\ requests' = requests
                   \o << [api |-> "count_tokens", attempt |-> attempt,
                          outcome |-> prompt_outcome],
                         [api |-> "count_tokens", attempt |-> attempt,
                          outcome |-> text_outcome] >>
            /\ engine_pc' = "returned"
            /\ engine_result' = Response(engine_call.fn, attempt)
            /\ UNCHANGED attempt
       ELSE /\ requests' = Append(requests,
                                  [api |-> "count_tokens", attempt |-> attempt,
                                   outcome |-> prompt_outcome])
            /\ Handle(ExceptionOf(engine_call.fn, prompt_outcome))
    /\ UNCHANGED engine_call
    /\ UNCHANGED <<evalVars, numericVars, batchVars, biasVars, screenVars,
                   jobVars, pipelineVars>>

\* The loop ran out of attempts without returning or raising (max_retries
\* is 0): the raise after the loop
LoopExhausted ==
    /\ engine_pc = "loop"
    /\ attempt >= engine_call.max_retries
    /\ engine_pc' = "raised"
    /\ engine_result' = MaxRetriesExceeded(engine_call.fn)
    /\ UNCHANGED <<engine_call, attempt, requests>>
    /\ UNCHANGED <<evalVars, numericVars, batchVars, biasVars, screenVars,
                   jobVars, pipelineVars>>

EngineNext ==
    \/ \E client \in Clients, max_retries \in 0..MaxRetriesTried, api_key \in BOOLEAN :
          CallClient(client, max_retries, api_key)
    \/ \E outcome \in Outcomes : Generate(outcome)
    \/ \E prompt_outcome \in Outcomes, text_outcome \in Outcomes :
          CountTokens(prompt_outcome, text_outcome)
    \/ LoopExhausted

EngineSpec ==
    EngineInit /\ [][EngineNext]_vars

\* The generation requests of the call, in order
GenerationRequests ==
    SelectSeq(requests, LAMBDA r : r.api = "generate")

\* C24: an engine client issues at most max_retries generation requests
\* per call; it returns on the first successful response; it issues
\* another request only after a rate-limit or timeout error that was not
\* on the last attempt; any other error, and any error of the last attempt,
\* is propagated to the caller at once; so the call has ended with a
\* response or an exception after at most max_retries requests.
C24_BoundedRetries ==
    engine_call.fn # "none" =>
        LET sent == GenerationRequests
        IN  /\ Len(sent) <= engine_call.max_retries
            /\ \A k \in DOMAIN sent :
                  sent[k].outcome = "ok"
                      => /\ k = Len(sent)
                         /\ engine_pc \in {"counting", "returned"}
                         /\ engine_pc = "returned"
                               => engine_result = Response(engine_call.fn, sent[k].attempt)
            /\ \A k \in DOMAIN sent :
                  (k < Len(sent) \/ engine_pc = "loop")
                      => /\ sent[k].outcome \in {"rate_limit", "timeout"}
                         /\ sent[k].attempt < engine_call.max_retries - 1
            /\ \A k \in DOMAIN sent :
                  (\/ sent[k].outcome = "error"
                   \/ /\ sent[k].outcome \in {"rate_limit", "timeout"}
                      /\ sent[k].attempt = engine_call.max_retries - 1)
                      => /\ k = Len(sent)
                         /\ engine_pc = "raised"
                         /\ engine_result = ExceptionOf(engine_call.fn, sent[k].outcome)
            /\ engine_pc = "returned" =>
                  /\ sent # <<>>
                  /\ sent[Len(sent)].outcome = "ok"

----------------------------------------------------------------------------
(* Job runner: batch and run_single_job of runner/run_job.py, started      *)
(* directly or by the orchestrator's run command and scheduled job         *)

\* Largest number of rows of the experiments index
MaxJobs ==
    3

\* Largest number of invocations on one index
MaxInvocations ==
    2

\* outputs/{run_id}.txt
OutputPath(run_id) ==
    <<"outputs", run_id>>

PromptPath(run_id) ==
    <<"prompts", run_id>>

\* A row of results/experiments.csv with the columns that batch reads and
\* run_single_job updates
IndexRow(run_id, status, time_of_day_label, engine, repetition_id) ==
    [run_id |-> run_id, status |-> status,
     time_of_day_label |-> time_of_day_label, engine |-> engine,
     repetition_id |-> repetition_id, prompt_path |-> PromptPath(run_id),
     output_path |-> OutputPath(run_id), model |-> "", finish_reason |-> ""]

\* Rows that an index is cut from (in this order)
IndexRows ==
    << IndexRow("r1", "pending", "morning", "openai", <<"1">>),
       IndexRow("r2", "pending", "evening", "google", <<"2">>),
       IndexRow("r3", "completed", "morning", "openai", <<"1">>),
       IndexRow("r4", "completed", "evening", "mistral", <<"2">>),
       IndexRow("r5", "failed", "morning", "anthropic", <<"1">>),
       IndexRow("r6", "pending", "afternoon", "llama", <<"1">>),
       IndexRow("r7", "pending", "morning", "openai", <<"2">>) >>

\* Prompt files on disk: the prompt of r7 is missing
PromptFiles ==
    {PromptPath(r) : r \in {"r1", "r2", "r3", "r4", "r5", "r6"}}

\* Output files on disk at the start: the output of r4 is missing
OutputsOnDisk ==
    {OutputPath("r3")}

KnownEngines ==
    {"openai", "google", "mistral", "anthropic"}

\* int(row.get("repetition_id", 0))
int(digits) ==
    DigitsValue(digits)

\* A command line: fn is batch (runner.run_job), run (orchestrator) or
\* run_scheduled_job (scheduler); an option not given is <<>>
JobCall(fn, time_of_day, engine, repetition, resume, dry_run, session_id) ==
    [fn |-> fn, time_of_day |-> time_of_day, engine |-> engine,
     repetition |-> repetition, resume |-> resume, dry_run |-> dry_run,
     session_id |-> session_id]

DefaultBatch ==
    JobCall("batch", <<>>, <<>>, <<>>, FALSE, FALSE, <<>>)

JobCalls ==
    { DefaultBatch,
      JobCall("batch", <<"morning">>, <<>>, <<>>, FALSE, FALSE, <<>>),
      JobCall("batch", <<>>, <<"openai">>, <<>>, FALSE, FALSE, <<>>),
      JobCall("batch", <<>>, <<>>, <<1>>, FALSE, FALSE, <<>>),
      JobCall("batch", <<>>, <<>>, <<>>, TRUE, FALSE, <<>>),
      JobCall("batch", <<>>, <<>>, <<>>, FALSE, TRUE, <<>>),
      JobCall("run", <<"morning">>, <<>>, <<>>, FALSE, FALSE, <<>>),
      JobCall("run_scheduled_job", <<"morning">>, <<>>, <<>>, FALSE, FALSE, <<"auto_morning">>) }

\* The command that execute_runs builds: batch with no filter, and
\* --session-id when a session id is given
execute_runs(time_of_day, session_id) ==
    [time_of_day |-> <<>>, engine |-> <<>>, repetition |-> <<>>,
     resume |-> FALSE, dry_run |-> FALSE,
     unknown |-> IF session_id # <<>> THEN <<"--session-id">> ELSE <<>>]

\* The options that batch is started with
BatchCommand(call) ==
    IF call.fn = "batch"
    THEN [time_of_day |-> call.time_of_day, engine |-> call.engine,
          repetition |-> call.repetition, resume |-> call.resume,
          dry_run |-> call.dry_run, unknown |-> <<>>]
    ELSE execute_runs(call.time_of_day, call.session_id)

\* A selection loop that does not look at the status
SelectedWhateverStatus(options, row, files) ==
    /\ options.time_of_day # <<>> => row.time_of_day_label = options.time_of_day[1]
    /\ options.engine # <<>> => row.engine = options.engine[1]
    /\ options.repetition # <<>> => int(row.repetition_id) = options.repetition[1]

\* The body of the selection loop for one row
Selected(options, row, files) ==
    /\ ~(~options.resume /\ row.status = "completed")
    /\ options.time_of_day # <<>> => row.time_of_day_label = options.time_of_day[1]
    /\ options.engine # <<>> => row.engine = options.engine[1]
    /\ options.repetition # <<>> => int(row.repetition_id) = options.repetition[1]
    /\ row.status # "completed" \/ row.output_path \notin files

\* pending, as the positions of its rows in rows
Pending(options, index_rows, files) ==
    SelectSeq([k \in DOMAIN index_rows |-> k],
              LAMBDA k : Selected(options, index_rows[k], files))

JobInit ==
    /\ product_yaml = NoResult
    /\ output_text = <<>>
    /\ written = <<>>
    /\ inserts = 0
    /\ hashseed = 0
    /\ result = NoResult
    /\ last = "start"
    /\ NumericIdle
    /\ BiasIdle
    /\ ScreenIdle
    /\ BatchIdle
    /\ EngineIdle
    /\ PipelineIdle
    /\ \E a \in DOMAIN IndexRows, n \in 0..MaxJobs :
          /\ a + n - 1 <= Len(IndexRows)
          /\ index_file = [exists |-> n > 0, rows |-> SubSeq(IndexRows, a, a + n - 1)]
          /\ n = 0 => a = 1
    /\ output_files = OutputsOnDisk
    /\ job_call = [fn |-> "none"]
    /\ rows = <<>>
    /\ rows_read = <<>>
    /\ pending = <<>>
    /\ job_index = 0
    /\ completed = 0
    /\ failed = 0
    /\ attempted = <<>>
    /\ engine_calls = <<>>
    /\ index_writes = 0
    /\ job_pc = "idle"
    /\ invocations = 0
    /\ previous = [fn |-> "none"]

\* Rows of the invocation that ended whose job wrote an output file
Produced ==
    {k \in Range(attempted) : rows[k].status = "completed"}

\* A command is entered: the orchestrator's steps before the subprocess,
\* then batch up to its loop
Invoke(call) ==
    /\ job_pc \in {"idle", "done", "returned", "exit1", "usage_error", "no_matrix", "interrupted"}
    /\ invocations < MaxInvocations
    /\ invocations > 0 => call \in {job_call, DefaultBatch}
    /\ invocations' = invocations + 1
    /\ previous' = IF invocations = 0
                   THEN [fn |-> "none"]
                   ELSE [fn |-> job_call.fn, call |-> job_call, pc |-> job_pc,
                         failed |-> failed, produced |-> Produced,
                         rows_read |-> rows_read, index |-> index_file]
    /\ job_call' = call
    /\ job_index' = 0
    /\ completed' = 0
    /\ failed' = 0
    /\ attempted' = <<>>
    /\ engine_calls' = <<>>
    /\ index_writes' = 0
    /\ LET options == BatchCommand(call)
           selected == Pending(options, index_file.rows, output_files)
       IN  IF call.fn # "batch" /\ ~index_file.exists
           THEN /\ job_pc' = "no_matrix"
                /\ rows' = <<>>
                /\ rows_read' = <<>>
                /\ pending' = <<>>
           ELSE IF options.unknown # <<>>
           THEN /\ job_pc' = "usage_error"
                /\ rows' = <<>>
                /\ rows_read' = <<>>
                /\ pending' = <<>>
           ELSE IF ~index_file.exists
           THEN /\ job_pc' = "exit1"
                /\ rows' = <<>>
                /\ rows_read' = <<>>
                /\ pending' = <<>>
           ELSE /\ rows' = index_file.rows
                /\ rows_read' = index_file.rows
                /\ pending' = selected
                /\ job_pc' = IF options.dry_run \/ selected = <<>>
                             THEN "returned"
                             ELSE "running"
    /\ UNCHANGED <<index_file, output_files>>
    /\ UNCHANGED <<evalVars, numericVars, batchVars, biasVars, screenVars,
                   engineVars, pipelineVars>>

\* What run_single_job does for a row when the engine answers with outcome
run_single_job(row, outcome) ==
    IF row.prompt_path \notin PromptFiles
    THEN [exc |-> "FileNotFoundError"]
    ELSE IF row.engine \notin KnownEngines
    THEN [exc |-> "ValueError"]
    ELSE IF outcome # "ok"
    THEN [exc |-> "Exception"]
    ELSE [status |-> "completed", model |-> row.engine, finish_reason |-> "stop"]

\* row.update(result)
Update(row, fields) ==
    [c \in DOMAIN row |-> IF c \in DOMAIN fields THEN fields[c] ELSE row[c]]

\* One iteration of the loop over pending
RunJob(outcome) ==
    /\ job_pc = "running"
    /\ job_index < Len(pending)
    /\ LET k == pending[job_index + 1]
           row == rows[k]
           res == run_single_job(row, outcome)
       IN  /\ engine_calls' = IF row.prompt_path \in PromptFiles
                              THEN Append(engine_calls, row.run_id)
                              ELSE engine_calls
           /\ attempted' = Append(attempted, k)
           /\ IF Raised(res)
              THEN /\ rows' = [rows EXCEPT ![k] = Update(row, [status |-> "failed"])]
                   /\ failed' = failed + 1
                   /\ UNCHANGED <<completed, output_files>>
              ELSE /\ output_files' = output_files \cup {OutputPath(row.run_id)}
                   /\ rows' = [rows EXCEPT ![k] = Update(row, res)]
                   /\ completed' = completed + 1
                   /\ UNCHANGED failed
    /\ job_index' = job_index + 1
    /\ UNCHANGED <<index_file, job_call, rows_read, pending, index_writes,
                   job_pc, invocations, previous>>
    /\ UNCHANGED <<evalVars, numericVars, batchVars, biasVars, screenVars,
                   engineVars, pipelineVars>>

\* A write of the rows of pending only
WriteIndexOfPending ==
    /\ job_pc = "running"
    /\ job_index = Len(pending)
    /\ index_file' = [exists |-> TRUE, rows |-> [i \in DOMAIN pending |-> rows[pending[i]]]]
    /\ index_writes' = index_writes + 1
    /\ job_pc' = "done"
    /\ UNCHANGED <<output_files, job_call, rows, rows_read, pending, job_index,
                   completed, failed, attempted, engine_calls, invocations,
                   previous>>
    /\ UNCHANGED <<evalVars, numericVars, batchVars, biasVars, screenVars,
                   engineVars, pipelineVars>>

\* The write of all rows after the loop
WriteIndex ==
    /\ job_pc = "running"
    /\ job_index = Len(pending)
    /\ index_file' = [exists |-> TRUE, rows |-> rows]
    /\ index_writes' = index_writes + 1
    /\ job_pc' = "done"
    /\ UNCHANGED <<output_files, job_call, rows, rows_read, pending, job_index,
                   completed, failed, attempted, engine_calls, invocations,
                   previous>>
    /\ UNCHANGED <<evalVars, numericVars, batchVars, biasVars, screenVars,
                   engineVars, pipelineVars>>

\* An interruption that saves the rows before it ends the batch
InterruptSavingRows ==
    /\ job_pc = "running"
    /\ job_pc' = "interrupted"
    /\ index_file' = [exists |-> TRUE, rows |-> rows]
    /\ index_writes' = index_writes + 1
    /\ UNCHANGED <<output_files, job_call, rows, rows_read,
                   pending, job_index, completed, failed, attempted,
                   engine_calls, invocations, previous>>
    /\ UNCHANGED <<evalVars, numericVars, batchVars, biasVars, screenVars,
                   engineVars, pipelineVars>>

\* KeyboardInterrupt while the loop runs: except Exception does not catch it
Interrupt ==
    /\ job_pc = "running"
    /\ job_pc' = "interrupted"
    /\ UNCHANGED <<index_file, output_files, job_call, rows, rows_read,
                   pending, job_index, completed, failed, attempted,
                   engine_calls, index_writes, invocations, previous>>
    /\ UNCHANGED <<evalVars, numericVars, batchVars, biasVars, screenVars,
                   engineVars, pipelineVars>>

JobNext ==
    \/ \E call \in JobCalls : Invoke(call)
    \/ \E outcome \in {"ok", "error"} : RunJob(outcome)
    \/ WriteIndex
    \/ Interrupt

JobSpec ==
    JobInit /\ [][JobNext]_vars

\* The batch has read the index
IndexRead ==
    job_pc \in {"running", "done", "returned", "interrupted"}

\* C21: the orchestrator's run command with --time-of-day T, and a scheduled
\* run for T, execute only runs whose time_of_day_label is T; the runs with
\* another label are not executed and keep their status, in memory and in
\* the index.
C21_OnlyRequestedTimeOfDay ==
    (job_call.fn \in {"run", "run_scheduled_job"} /\ job_call.time_of_day # <<>>) =>
        /\ \A i \in DOMAIN attempted :
              rows_read[attempted[i]].time_of_day_label = job_call.time_of_day[1]
        /\ \A k \in DOMAIN rows_read :
              rows_read[k].time_of_day_label # job_call.time_of_day[1]
                  => /\ rows[k].status = rows_read[k].status
                     /\ index_file.rows[k].status = rows_read[k].status

\* C22: without --resume, batch never calls an engine for a row whose status
\* is 'completed'; a default batch that follows a default batch without a
\* failure executes no job and leaves every row of the index unchanged; a
\* default batch selects every row left 'pending' or 'failed'.
C22_CompletedRowsNotRerun ==
    /\ IndexRead /\ ~BatchCommand(job_call).resume =>
          /\ \A i \in DOMAIN attempted : rows_read[attempted[i]].status # "completed"
          /\ \A i \in DOMAIN engine_calls :
                \A k \in DOMAIN rows_read :
                    rows_read[k].run_id = engine_calls[i] => rows_read[k].status # "completed"
    /\ (/\ IndexRead
        /\ job_call = DefaultBatch
        /\ previous.fn = "batch"
        /\ previous.call = DefaultBatch
        /\ previous.pc \in {"done", "returned"}
        /\ previous.failed = 0) =>
          /\ job_pc = "returned"
          /\ pending = <<>>
          /\ attempted = <<>>
          /\ engine_calls = <<>>
          /\ index_writes = 0
          /\ index_file = previous.index
          /\ \A k \in DOMAIN index_file.rows : index_file.rows[k].status = "completed"
    /\ IndexRead /\ job_call = DefaultBatch =>
          \A k \in DOMAIN rows_read :
              rows_read[k].status \in {"pending", "failed"} => k \in Range(pending)

\* A second default batch found nothing to do after a first one completed
\* at least one job and failed none
C22_Witness ==
    /\ job_call = DefaultBatch
    /\ job_pc = "returned"
    /\ previous.fn = "batch"
    /\ previous.call = DefaultBatch
    /\ previous.pc = "done"
    /\ previous.failed = 0
    /\ previous.produced # {}
    /\ \E k \in DOMAIN previous.rows_read : previous.rows_read[k].status = "completed"

AfterInterruption ==
    /\ previous.fn # "none"
    /\ previous.pc = "interrupted"
    /\ job_call = previous.call

\* C30 as stated: the batch rewrites the index exactly once per invocation,
\* only after every pending job was attempted; nothing is persisted while
\* jobs run; after an interruption the jobs that produced an output file
\* have their old status in the index and are selected by the next batch.
C30_WrittenOncePerInvocation ==
    /\ job_pc \in {"done", "returned"} => index_writes = 1
    /\ index_writes > 0 => attempted = pending
    /\ job_pc \in {"running", "interrupted"} => index_file.rows = rows_read
    /\ AfterInterruption =>
          \A k \in previous.produced :
              /\ rows_read[k].status = previous.rows_read[k].status
              /\ k \in Range(pending)

\* C30 amended: the batch rewrites the index at most once per invocation:
\* once when it selected at least one job and ran to its end, after every
\* pending job was attempted, and never when it selected no job, was a dry
\* run or was interrupted; nothing is persisted while jobs run; after an
\* interruption the jobs that produced an output file have their old
\* status in the index, and the next batch with the same options selects
\* those whose old status is not 'completed'.
C30_WrittenAtMostOnce ==
    /\ index_writes <= 1
    /\ index_writes = 1 <=> job_pc = "done"
    /\ job_pc = "done" => pending # <<>> /\ attempted = pending
    /\ job_pc \in {"running", "interrupted", "returned"} =>
          /\ index_file.rows = rows_read
          /\ index_writes = 0
    /\ AfterInterruption =>
          \A k \in previous.produced :
              /\ rows_read[k].status = previous.rows_read[k].status
              /\ rows_read[k].status # "completed" <=> k \in Range(pending)

\* A batch that repeats an interrupted one has run the jobs that had
\* produced an output file again and has written the index
C30_Witness ==
    /\ AfterInterruption
    /\ previous.produced # {}
    /\ previous.produced \subseteq Range(attempted)
    /\ job_pc = "done"
    /\ index_writes = 1

----------------------------------------------------------------------------
(* Orchestrator commands: full, run, analyze and sample of orchestrator.py *)

\* The steps of a command in the order of its body
Plan(cmd) ==
    CASE cmd.fn = "full" ->
           IF cmd.skip_analysis
           THEN <<"generate_matrix", "execute_runs">>
           ELSE <<"generate_matrix", "execute_runs", "evaluate_outputs",
                  "generate_analytics", "create_validation_sample">>
      [] cmd.fn = "run" -> <<"generate_matrix", "execute_runs">>
      [] cmd.fn = "analyze" -> <<"evaluate_outputs", "generate_analytics">>
      [] cmd.fn = "sample" -> <<"create_validation_sample">>
      [] OTHER -> <<>>

Commands ==
    [fn : {"full", "run"}, time_of_day : {<<>>, <<"morning">>, <<"noon">>},
     skip_analysis : BOOLEAN]
    \cup [fn : {"analyze", "sample"}, time_of_day : {<<>>}, skip_analysis : {FALSE}]

\* The step the command is about to call
NextStep ==
    IF command.fn = "none" \/ exit_code # <<>>
    THEN "none"
    ELSE IF Len(steps) < Len(Plan(command))
    THEN Plan(command)[Len(steps) + 1]
    ELSE "end"

\* A command that goes on after a failed step
ExitAfterIgnoringFailure(ok) ==
    <<>>

\* if not step(): raise typer.Exit(1)
ExitAfter(ok) ==
    IF ok THEN <<>> ELSE <<1>>

\* The step returned ok; subprocess tells whether run_command was called
Stepped(step, ok, subprocess) ==
    /\ steps' = Append(steps, [step |-> step, ok |-> ok, subprocess |-> subprocess])
    /\ exit_code' = ExitAfter(ok)
    /\ UNCHANGED <<command, matrix_exists>>
    /\ UNCHANGED <<evalVars, numericVars, batchVars, biasVars, screenVars,
                   jobVars, engineVars>>

PipelineInit ==
    /\ product_yaml = NoResult
    /\ output_text = <<>>
    /\ written = <<>>
    /\ inserts = 0
    /\ hashseed = 0
    /\ result = NoResult
    /\ last = "start"
    /\ NumericIdle
    /\ BiasIdle
    /\ ScreenIdle
    /\ BatchIdle
    /\ JobIdle
    /\ EngineIdle
    /\ command = [fn |-> "none"]
    /\ matrix_exists \in BOOLEAN
    /\ steps = <<>>
    /\ exit_code = <<>>

\* The command up to its first step: run rejects an unknown time of day
Enter(cmd) ==
    /\ command.fn = "none"
    /\ command' = cmd
    /\ exit_code' = IF /\ cmd.fn = "run"
                       /\ cmd.time_of_day # <<>>
                       /\ cmd.time_of_day[1] \notin {"morning", "afternoon", "evening"}
                    THEN <<1>>
                    ELSE <<>>
    /\ UNCHANGED <<matrix_exists, steps>>
    /\ UNCHANGED <<evalVars, numericVars, batchVars, biasVars, screenVars,
                   jobVars, engineVars>>

\* generate_matrix: no subprocess when results/experiments.csv exists
GenerateMatrix(returncode) ==
    /\ NextStep = "generate_matrix"
    /\ IF matrix_exists
       THEN returncode = 0 /\ Stepped("generate_matrix", TRUE, FALSE)
       ELSE Stepped("generate_matrix", returncode = 0, TRUE)

\* execute_runs: fails without a subprocess when the matrix is missing
ExecuteRuns(returncode) ==
    /\ NextStep = "execute_runs"
    /\ IF ~matrix_exists
       THEN returncode = 0 /\ Stepped("execute_runs", FALSE, FALSE)
       ELSE Stepped("execute_runs", returncode = 0, TRUE)

EvaluateOutputs(returncode) ==
    /\ NextStep = "evaluate_outputs"
    /\ Stepped("evaluate_outputs", returncode = 0, TRUE)

GenerateAnalytics(returncode) ==
    /\ NextStep = "generate_analytics"
    /\ Stepped("generate_analytics", returncode = 0, TRUE)

CreateValidationSample(returncode) ==
    /\ NextStep = "create_validation_sample"
    /\ Stepped("create_validation_sample", returncode = 0, TRUE)

\* The end of the command's body
Complete ==
    /\ NextStep = "end"
    /\ exit_code' = <<0>>
    /\ UNCHANGED <<command, matrix_exists, steps>>
    /\ UNCHANGED <<evalVars, numericVars, batchVars, biasVars, screenVars,
                   jobVars, engineVars>>

PipelineNext ==
    \/ \E cmd \in Commands : Enter(cmd)
    \/ \E returncode \in {0, 1} : GenerateMatrix(returncode)
    \/ \E returncode \in {0, 1} : ExecuteRuns(returncode)
    \/ \E returncode \in {0, 1} : EvaluateOutputs(returncode)
    \/ \E returncode \in {0, 1} : GenerateAnalytics(returncode)
    \/ \E returncode \in {0, 1} : CreateValidationSample(returncode)
    \/ Complete

PipelineSpec ==
    PipelineInit /\ [][PipelineNext]_vars

FullOrder ==
    <<"generate_matrix", "execute_runs", "evaluate_outputs",
      "generate_analytics", "create_validation_sample">>

\* C23: full runs its steps in the order generate matrix, execute runs,
\* evaluate, analytics, validation sample; a step starts only after every
\* earlier step returned success; the first failing step ends the command
\* with exit code 1 and no later step starts; with --skip-analysis the
\* last three steps are never started; the command ends with exit code 0
\* only after all its steps returned success.
C23_FullIsFailStop ==
    command.fn = "full" =>
        /\ Len(steps) <= Len(FullOrder)
        /\ \A i \in DOMAIN steps : steps[i].step = FullOrder[i]
        /\ \A i \in DOMAIN steps : i < Len(steps) => steps[i].ok
        /\ \A i \in DOMAIN steps : ~steps[i].ok => exit_code = <<1>>
        /\ command.skip_analysis => Len(steps) <= 2
        /\ exit_code = <<1>> => steps # <<>> /\ ~steps[Len(steps)].ok
        /\ exit_code = <<0>> =>
              /\ Len(steps) = IF command.skip_analysis THEN 2 ELSE 5
              /\ \A i \in DOMAIN steps : steps[i].ok

\* full ended with exit code 1 at its third step, after two successful steps
C23_Witness ==
    /\ command.fn = "full"
    /\ ~command.skip_analysis
    /\ Len(steps) = 3
    /\ steps[1].ok
    /\ steps[2].ok
    /\ ~steps[3].ok
    /\ exit_code = <<1>>

===========================================================================
